---------------------------- MODULE Spec2Model ----------------------------
(***************************************************************************)
(* A model of windnf: the package store (repositories, packages, provides, *)
(* requires), the metadata sync pipeline, repository deletion and the      *)
(* dependency resolver, together with the version algebra (rpmvercmp and   *)
(* the NEVRA order) the resolver's selection rests on.                     *)
(*                                                                         *)
(* Python strings are sequences of one-character strings, so that the      *)
(* character-level functions (tokenising, substring search, code-point     *)
(* order) are computed as the code computes them.  None and "" are both    *)
(* the empty sequence wherever the code reads a field through "x or ...".  *)
(***************************************************************************)
EXTENDS Integers, Sequences, FiniteSets, TLC

(***************************************************************************)
(* Bounds of the model.                                                    *)
(***************************************************************************)
MaxRepoId == 2
MaxClock == 2
MaxStoreSize == 4
MaxCalls == 2
MaxChunks == 2

(***************************************************************************)
(* Characters and strings.                                                 *)
(***************************************************************************)
Ord ==
    "+" :> 43 @@ "-" :> 45 @@ "." :> 46 @@
    "0" :> 48 @@ "1" :> 49 @@ "2" :> 50 @@ "3" :> 51 @@ "4" :> 52 @@
    "5" :> 53 @@ "6" :> 54 @@ "7" :> 55 @@ "8" :> 56 @@ "9" :> 57 @@
    ":" :> 58 @@ "A" :> 65 @@ "B" :> 66 @@ "C" :> 67 @@ "^" :> 94 @@
    "_" :> 95 @@ "a" :> 97 @@ "b" :> 98 @@ "c" :> 99 @@ "h" :> 104 @@
    "i" :> 105 @@ "l" :> 108 @@ "n" :> 110 @@ "o" :> 111 @@ "r" :> 114 @@
    "x" :> 120 @@ "~" :> 126

Digits == {"0", "1", "2", "3", "4", "5", "6", "7", "8", "9"}

isdigit(c) == c \in Digits

Lower(c) ==
    CASE c = "A" -> "a"
      [] c = "B" -> "b"
      [] c = "C" -> "c"
      [] OTHER -> c

Sign(n) == IF n > 0 THEN 1 ELSE IF n < 0 THEN -1 ELSE 0

Min2(a, b) == IF a < b THEN a ELSE b

\* Python's str comparison: by code point, a proper prefix is smaller.
RECURSIVE StrCmp(_, _)
StrCmp(a, b) ==
    IF a = <<>> THEN (IF b = <<>> THEN 0 ELSE -1)
    ELSE IF b = <<>> THEN 1
    ELSE IF Ord[Head(a)] < Ord[Head(b)] THEN -1
    ELSE IF Ord[Head(a)] > Ord[Head(b)] THEN 1
    ELSE StrCmp(Tail(a), Tail(b))

Chars == DOMAIN Ord

\* int(s) of a run of digits.
IntOf(s) ==
    LET F[t \in Seq(Digits)] ==
            IF t = <<>> THEN 0
            ELSE F[SubSeq(t, 1, Len(t) - 1)] * 10 + (Ord[t[Len(t)]] - Ord["0"])
    IN  F[s]

(***************************************************************************)
(* rpmvercmp (nevra.py).                                                   *)
(***************************************************************************)
\* Length of the maximal run at the head of s: digits, or non-digits.
RunLen(s) ==
    CHOOSE n \in 1..Len(s) :
        /\ \A i \in 1..n : isdigit(s[i]) = isdigit(s[1])
        /\ n = Len(s) \/ isdigit(s[n + 1]) # isdigit(s[1])

\* re.findall(r"[0-9]+|[^0-9]+", s)
split_parts(s) ==
    LET F[t \in Seq(Chars)] ==
            IF t = <<>> THEN <<>>
            ELSE <<SubSeq(t, 1, RunLen(t))>> \o F[SubSeq(t, RunLen(t) + 1, Len(t))]
    IN  F[s]

\* One step of the zip loop: 0 when the pair does not decide.
PartCmp(xa, xb) ==
    IF isdigit(xa[1]) /\ isdigit(xb[1])
    THEN Sign(IntOf(xa) - IntOf(xb))
    ELSE StrCmp(xa, xb)

\* The zip loop over the parts, then the comparison of the lengths.
rpmvercmp(a, b) ==
    LET cmp[pa \in Seq(Seq(Chars)), pb \in Seq(Seq(Chars))] ==
            LET n == Min2(Len(pa), Len(pb))
                deciding == {i \in 1..n : PartCmp(pa[i], pb[i]) # 0}
            IN  IF deciding # {}
                THEN LET i == CHOOSE j \in deciding : \A k \in deciding : j <= k
                     IN  PartCmp(pa[i], pb[i])
                ELSE Sign(Len(pa) - Len(pb))
    IN  cmp[split_parts(a), split_parts(b)]

(***************************************************************************)
(* NEVRA (nevra.py).  A NEVRA is a record of name, epoch, version,         *)
(* release, arch; epoch None is the empty sequence.                        *)
(***************************************************************************)
None == <<>>

from_row(row) ==
    [name |-> row.name, epoch |-> row.epoch, version |-> row.version,
     release |-> row.release, arch |-> row.arch]

EpochInt(e) == IF e = None THEN 0 ELSE IntOf(e)

_cmp_tuple(n) ==
    <<n.name,
      IF n.epoch # None /\ (\A i \in 1..Len(n.epoch) : isdigit(n.epoch[i]))
      THEN IntOf(n.epoch) ELSE 0,
      n.version, n.release, n.arch>>

NEVRA_eq(a, b) == _cmp_tuple(a) = _cmp_tuple(b)

NEVRA_lt(a, b) ==
    IF a.name # b.name THEN StrCmp(a.name, b.name) < 0
    ELSE IF EpochInt(a.epoch) # EpochInt(b.epoch)
         THEN EpochInt(a.epoch) < EpochInt(b.epoch)
    ELSE IF rpmvercmp(a.version, b.version) # 0
         THEN rpmvercmp(a.version, b.version) < 0
    ELSE IF rpmvercmp(a.release, b.release) # 0
         THEN rpmvercmp(a.release, b.release) < 0
    ELSE StrCmp(a.arch, b.arch) < 0

\* functools.total_ordering derives __gt__ from __lt__ and __eq__.
NEVRA_gt(a, b) == ~NEVRA_lt(a, b) /\ ~NEVRA_eq(a, b)


(***************************************************************************)
(* Values the model draws its inputs from.                                 *)
(***************************************************************************)
sA      == <<"A">>
sB      == <<"B">>
sC      == <<"C">>
slib    == <<"l", "i", "b">>
v0      == <<"0">>
v1      == <<"1">>
v1_9    == <<"1", ".", "9">>
v2_0    == <<"2", ".", "0">>
v2_1    == <<"2", ".", "1">>
x86_64  == <<"x", "8", "6", "_", "6", "4">>
noarch  == <<"n", "o", "a", "r", "c", "h">>
aarch64 == <<"a", "a", "r", "c", "h", "6", "4">>

NULL == 0
\* A NULL flags column of a relation row.
NoFlags == "NULL"

RepoNames == {"r1", "r2"}

\* What the user passes as baseurl and as --repomd.
DefaultRepomd == "repodata/repomd.xml"
BaseUrls == {"http://a/", "http://b/"}
Repomds  == {DefaultRepomd, "meta/repomd.xml"}

\* baseurl.rstrip("/")
rstrip_slash(baseurl) ==
    CASE baseurl = "http://a/" -> "http://a"
      [] baseurl = "http://b/" -> "http://b"
      [] OTHER -> baseurl

\* The repository row "repoadd name http://a/" leaves, but for id, name and
\* last_updated.
RepoRow(id, name, last_updated) ==
    [id |-> id, name |-> name, base_url |-> "http://a", repomd_url |-> DefaultRepomd,
     type |-> "binary", source_repo_id |-> NULL, last_updated |-> last_updated]

\* <package> elements of a primary.xml: name, version, location href and the
\* names of the <rpm:entry> children of provides / requires / weakrequires.
ElemA ==
    [name |-> sA, epoch |-> v0, version |-> v1, release |-> v1, arch |-> x86_64,
     filepath |-> TRUE, provides |-> {sA}, requires |-> {sB}, weak_requires |-> {}]
ElemB ==
    [name |-> sB, epoch |-> v0, version |-> v2_1, release |-> v1, arch |-> x86_64,
     filepath |-> TRUE, provides |-> {}, requires |-> {}, weak_requires |-> {sC}]
ElemNoLocation ==
    [name |-> sC, epoch |-> v0, version |-> v1, release |-> v1, arch |-> noarch,
     filepath |-> FALSE, provides |-> {sC}, requires |-> {}, weak_requires |-> {}]

\* The primary.xml documents a mirror may serve.
RemoteSnapshots == {<<>>, <<ElemNoLocation, ElemB>>, <<ElemA, ElemB>>}

(***************************************************************************)
(* State.                                                                  *)
(***************************************************************************)
VARIABLES
    foreign_keys,    \* PRAGMA foreign_keys of the store's connection
    repositories,    \* table repositories: set of rows
    repo_seq,        \* AUTOINCREMENT sequence of repositories.id
    packages,        \* table packages: set of rows
    provides,        \* table provides: set of rows
    requires,        \* table requires: set of rows
    pkg_seq,         \* AUTOINCREMENT sequence of packages' key
    now,             \* the wall clock datetime.utcnow() reads
    sync_pc,         \* position of the running sync_repo call
    sync_repo_id,    \* repo_row["id"] of the running sync_repo call
    sync_fetched,    \* what the two downloads of the running call returned
    sync_todo,       \* pending add_provides / add_requires calls
    sync_result,     \* how the last sync_repo call ended
    pre,             \* the store when the running sync_repo call began
    deleted,         \* history: ids of deleted repositories, keys of their packages
    request,         \* the resolver's arguments
    res_pc,          \* position of the running _resolve_dependencies call
    to_resolve,      \* the seeds, in request order
    stack,           \* work stack of package rows (as pkgKeys)
    resolved_keys,   \* resolved_keys
    dep_map,         \* dep_map: pkgKey -> sequence of provider pkgKeys
    unsatisfied,     \* unsatisfied_dependencies
    visits,          \* history: how often each package was expanded
    iterations,      \* history: iterations of the work loop
    last_cmd,        \* history: the last repository command and what it found
    imports,         \* the running import_repodb calls, one per importer
    sweep_pc,        \* position of the running reposync call
    sweep_args,      \* its arguments: names and all_
    sweep_repos,     \* the rows of repos the loop has not reached yet
    sweep_started,   \* history: names of the repos sync_repo was called for
    sweep_ended,     \* history: how many of these calls are over
    sweep_log,       \* what the loop logged after each sync_repo call
    config,          \* the Downloader's config: proxy_url
    environ,         \* the proxy the process environment names (HTTPS_PROXY)
    sessions,        \* every requests.Session built so far; self.session is the last
    dl_pc,           \* position of the running download call
    dl_call,         \* its mode (file / memory), whether it streams, its number
    attempt,         \* attempt of the loop over range(1, max_logic_retries + 1)
    dl_failures,     \* history: the exceptions the attempts of this call raised
    dl_renewals,     \* history: _init_session calls made by this call
    dl_result,       \* how the last call ended
    dl_via,          \* history: the proxy the last request went through
    path,            \* what output_path holds
    nv_pair,         \* the two NEVRAs under comparison
    nv_result,       \* what a < b, a == b, a > b, b < a and b > a returned
    rt,              \* a NEVRA, its str() and what NEVRA.parse makes of it
    vc,              \* two version strings and what rpmvercmp returned
    cli              \* the CLI process: its command line, the calls made, its exit

store_vars  == <<foreign_keys, repositories, repo_seq, packages, provides, requires, pkg_seq>>
sync_vars   == <<sync_pc, sync_repo_id, sync_fetched, sync_todo, sync_result, pre>>
res_vars    == <<request, res_pc, to_resolve, stack, resolved_keys, dep_map, unsatisfied,
                 visits, iterations>>
imp_vars    == <<imports>>
sweep_vars  == <<sweep_pc, sweep_args, sweep_repos, sweep_started, sweep_ended, sweep_log>>
dl_vars     == <<config, environ, sessions, dl_pc, dl_call, attempt, dl_failures,
                 dl_renewals, dl_result, dl_via, path>>
nv_vars     == <<nv_pair, nv_result>>
fn_vars     == <<rt, vc, cli>>
cmd_rest    == <<imp_vars, sweep_vars, dl_vars, nv_vars, fn_vars>>
imp_rest    == <<last_cmd, sweep_vars, dl_vars, nv_vars, fn_vars>>
sweep_rest  == <<last_cmd, imp_vars, dl_vars, nv_vars, fn_vars>>
dl_rest     == <<last_cmd, imp_vars, sweep_vars, nv_vars, fn_vars>>
nv_rest     == <<last_cmd, imp_vars, sweep_vars, dl_vars, fn_vars>>
fn_rest     == <<last_cmd, imp_vars, sweep_vars, dl_vars, nv_vars>>
ext_vars    == <<last_cmd, cmd_rest>>
vars        == <<store_vars, now, sync_vars, deleted, res_vars, ext_vars>>

(***************************************************************************)
(* The store (db_manager.py).                                              *)
(***************************************************************************)
\* _configure_pragmas of windnf's DbManager sets foreign_keys=ON.
WindnfForeignKeys == TRUE
\* winrpmdepscalc's DbManager sets synchronous, journal_mode, cache_size and
\* locking_mode only: foreign_keys keeps SQLite's default, which is OFF.
LegacyForeignKeys == FALSE

get_repo(name) == {r \in repositories : r.name = name}
get_repo_by_id(id) == {r \in repositories : r.id = id}

PkgKeysOf(pkgs, repo_id) == {p.pkgKey : p \in {q \in pkgs : q.repo_id = repo_id}}

\* ON DELETE CASCADE of packages.repo_id and of provides/requires' package
\* key, which SQLite applies only while foreign_keys is ON.
CascadePackages(pkgs, repo_id, fk) ==
    IF fk THEN {p \in pkgs : p.repo_id # repo_id} ELSE pkgs
CascadeRelations(rows, keys, fk) ==
    IF fk THEN {x \in rows : x.pkgKey \notin keys} ELSE rows

\* INSERT OR REPLACE instead of the upsert: the row of the name is deleted
\* and inserted anew, under a fresh id and never synced.
add_repo_rows_replace(name, base_url, repomd_url, rtype, source_repo_id) ==
    {r \in repositories : r.name # name} \cup
        {[id |-> repo_seq + 1, name |-> name, base_url |-> base_url,
          repomd_url |-> repomd_url, type |-> rtype,
          source_repo_id |-> source_repo_id, last_updated |-> NULL]}

\* An upsert that keeps the source link there is when none is given.
add_repo_rows_keep_source(name, base_url, repomd_url, rtype, source_repo_id) ==
    IF get_repo(name) = {}
    THEN repositories \cup
            {[id |-> repo_seq + 1, name |-> name, base_url |-> base_url,
              repomd_url |-> repomd_url, type |-> rtype,
              source_repo_id |-> source_repo_id, last_updated |-> NULL]}
    ELSE {IF r.name = name
          THEN [r EXCEPT !.base_url = base_url, !.repomd_url = repomd_url,
                         !.type = rtype,
                         !.source_repo_id = IF source_repo_id = NULL THEN @
                                            ELSE source_repo_id]
          ELSE r : r \in repositories}

\* add_repo: INSERT ... ON CONFLICT(name) DO UPDATE SET base_url, repomd_url,
\* type, source_repo_id.
add_repo_rows(name, base_url, repomd_url, rtype, source_repo_id) ==
    IF get_repo(name) = {}
    THEN repositories \cup
            {[id |-> repo_seq + 1, name |-> name, base_url |-> base_url,
              repomd_url |-> repomd_url, type |-> rtype,
              source_repo_id |-> source_repo_id, last_updated |-> NULL]}
    ELSE {IF r.name = name
          THEN [r EXCEPT !.base_url = base_url, !.repomd_url = repomd_url,
                         !.type = rtype, !.source_repo_id = source_repo_id]
          ELSE r : r \in repositories}

\* A pipeline that stamps a repository on its first sync only.
update_repo_timestamp_first_only(repo_id, ts) ==
    {IF r.id = repo_id /\ r.last_updated = NULL
     THEN [r EXCEPT !.last_updated = ts] ELSE r : r \in repositories}

\* update_repo_timestamp: UPDATE repositories SET last_updated=? WHERE id=?
update_repo_timestamp(repo_id, ts) ==
    {IF r.id = repo_id THEN [r EXCEPT !.last_updated = ts] ELSE r : r \in repositories}

\* clear_repo_packages: three DELETEs in one transaction.
clear_provides(repo_id) == {x \in provides : x.pkgKey \notin PkgKeysOf(packages, repo_id)}
clear_requires(repo_id) == {x \in requires : x.pkgKey \notin PkgKeysOf(packages, repo_id)}
\* A DELETE FROM packages without the WHERE clause.
clear_packages_all(repo_id) == {}
clear_packages(repo_id) == {p \in packages : p.repo_id # repo_id}

\* add_provides / add_requires: INSERT OR IGNORE, one row per name.
add_provides(package_id, names) ==
    provides \cup {[pkgKey |-> package_id, name |-> n] : n \in names}
add_requires(package_id, names, is_weak) ==
    requires \cup {[pkgKey |-> package_id, name |-> n, flags |-> NoFlags,
                    epoch |-> None, version |-> None, release |-> None,
                    is_weak |-> is_weak] : n \in names}


(***************************************************************************)
(* The metadata pipeline (metadata_manager.py, MetadataManager.sync_repo). *)
(***************************************************************************)
\* The ways the code before the first store call ends the sync: the ones
\* that log and return, and the ones that raise (ET.fromstring on a
\* repomd.xml or primary.xml that is not well-formed XML).
EarlyReturns == {"repomd_fetch", "no_primary", "primary_fetch", "decompress", "namespaces"}
EarlyRaises  == {"repomd_parse", "primary_parse"}

\* _parse_and_store_packages_bulk skips elements without name or location.
packages_data(snapshot) ==
    SelectSeq(snapshot, LAMBDA e : e.name # <<>> /\ e.filepath)

\* add_packages_bulk(repo_id, dicts): rows with fresh keys, in document
\* order, in one transaction; returns the keys.
add_packages_bulk(repo_id, data) ==
    {[pkgKey |-> pkg_seq + i, repo_id |-> repo_id, name |-> data[i].name,
      epoch |-> data[i].epoch, version |-> data[i].version,
      release |-> data[i].release, arch |-> data[i].arch] : i \in 1..Len(data)}

\* The add_provides / add_requires calls of the loop over pkg_ids, in order.
RelationCalls(pkg_id, e) ==
    (IF e.provides # {}
     THEN <<[table |-> "provides", pkgKey |-> pkg_id, names |-> e.provides, is_weak |-> FALSE]>>
     ELSE <<>>) \o
    (IF e.requires # {}
     THEN <<[table |-> "requires", pkgKey |-> pkg_id, names |-> e.requires, is_weak |-> FALSE]>>
     ELSE <<>>) \o
    (IF e.weak_requires # {}
     THEN <<[table |-> "requires", pkgKey |-> pkg_id, names |-> e.weak_requires, is_weak |-> TRUE]>>
     ELSE <<>>)

RECURSIVE AllRelationCalls(_, _, _)
AllRelationCalls(first_key, data, i) ==
    IF i > Len(data) THEN <<>>
    ELSE RelationCalls(first_key + i, data[i]) \o AllRelationCalls(first_key, data, i + 1)

StoreSnapshot ==
    [repositories |-> repositories, packages |-> packages,
     provides |-> provides, requires |-> requires]

NoSnapshot == [repositories |-> {}, packages |-> {}, provides |-> {}, requires |-> {}]
NoFetch    == [snapshot |-> <<>>, digest_ok |-> TRUE]

\* Lines 53-99 end the call before any store call.
SyncFetchFails(r, kind) ==
    /\ sync_pc = "idle"
    /\ r \in repositories
    /\ now < MaxClock
    /\ now' = now + 1
    /\ sync_pc' = "done"
    /\ sync_repo_id' = r.id
    /\ sync_result' = kind
    /\ pre' = StoreSnapshot
    /\ UNCHANGED <<store_vars, sync_fetched, sync_todo, deleted, ext_vars, res_vars>>

\* Lines 53-99 pass: repomd.xml names a primary artifact, which downloads,
\* decompresses and carries both namespaces.  digest_ok records whether the
\* artifact's digest equals the checksum repomd.xml declares for it.
SyncFetched(r, snapshot, digest_ok) ==
    /\ sync_pc = "idle"
    /\ r \in repositories
    /\ now < MaxClock
    /\ now' = now + 1
    /\ sync_pc' = "fetched"
    /\ sync_repo_id' = r.id
    /\ sync_fetched' = [snapshot |-> snapshot, digest_ok |-> digest_ok]
    /\ sync_result' = "none"
    /\ pre' = StoreSnapshot
    /\ UNCHANGED <<store_vars, sync_todo, deleted, ext_vars, res_vars>>

\* Line 101: self.db.clear_repo_packages(repo_id), a transaction of its own.
SyncClear ==
    /\ sync_pc = "fetched"
    /\ sync_pc' = "cleared"
    /\ provides' = clear_provides(sync_repo_id)
    /\ requires' = clear_requires(sync_repo_id)
    /\ packages' = clear_packages(sync_repo_id)
    /\ UNCHANGED <<foreign_keys, repositories, repo_seq, pkg_seq, now, sync_repo_id,
                   sync_fetched, sync_todo, sync_result, pre, deleted, ext_vars, res_vars>>

\* Lines 147-288: parse the document, then add_packages_bulk.
SyncAddPackages ==
    /\ sync_pc = "cleared"
    /\ sync_pc' = "relations"
    /\ LET data == packages_data(sync_fetched.snapshot)
       IN  /\ packages' = packages \cup add_packages_bulk(sync_repo_id, data)
           /\ pkg_seq' = pkg_seq + Len(data)
           /\ sync_todo' = AllRelationCalls(pkg_seq, data, 1)
    /\ UNCHANGED <<foreign_keys, repositories, repo_seq, provides, requires, now,
                   sync_repo_id, sync_fetched, sync_result, pre, deleted, ext_vars, res_vars>>

\* Lines 291-298: one add_provides / add_requires call, each a transaction.
SyncRelation ==
    /\ sync_pc = "relations"
    /\ sync_todo # <<>>
    /\ LET c == Head(sync_todo)
       IN  /\ provides' = IF c.table = "provides"
                          THEN add_provides(c.pkgKey, c.names) ELSE provides
           /\ requires' = IF c.table = "requires"
                          THEN add_requires(c.pkgKey, c.names, c.is_weak) ELSE requires
    /\ sync_todo' = Tail(sync_todo)
    /\ UNCHANGED <<foreign_keys, repositories, repo_seq, packages, pkg_seq, now, sync_pc,
                   sync_repo_id, sync_fetched, sync_result, pre, deleted, ext_vars, res_vars>>

\* Line 104: update_repo_timestamp(repo_id, datetime.utcnow().isoformat()).
SyncStamp ==
    /\ sync_pc = "relations"
    /\ sync_todo = <<>>
    /\ repositories' = update_repo_timestamp(sync_repo_id, now)
    /\ sync_pc' = "done"
    /\ sync_result' = "ok"
    /\ UNCHANGED <<foreign_keys, repo_seq, packages, provides, requires, pkg_seq, now,
                   sync_repo_id, sync_fetched, sync_todo, pre, deleted, ext_vars, res_vars>>

\* The next store call raises (sqlite3.Error: disk full, I/O error, locked
\* database): its own transaction rolls back, the exception leaves
\* sync_repo, which has no handler.
SyncRaise ==
    /\ sync_pc \in {"fetched", "cleared", "relations"}
    /\ sync_pc' = "done"
    /\ sync_result' = "store_error"
    /\ UNCHANGED <<store_vars, now, sync_repo_id, sync_fetched, sync_todo, pre,
                   deleted, ext_vars, res_vars>>

\* The call is over; the next command may run.
SyncReturn ==
    /\ sync_pc = "done"
    /\ sync_pc' = "idle"
    /\ sync_repo_id' = NULL
    /\ sync_fetched' = NoFetch
    /\ sync_todo' = <<>>
    /\ sync_result' = "none"
    /\ pre' = NoSnapshot
    /\ UNCHANGED <<store_vars, now, deleted, ext_vars, res_vars>>

(***************************************************************************)
(* Repository commands.                                                    *)
(***************************************************************************)
\* add_repo: raises ValueError on an unknown type, else one upsert.
add_repo(name, base_url, repomd_url, rtype, source_repo_id) ==
    /\ sync_pc = "idle"
    /\ rtype \in {"binary", "source"}
    /\ get_repo(name) # {} \/ repo_seq < MaxRepoId
    /\ repositories' = add_repo_rows(name, base_url, repomd_url, rtype, source_repo_id)
    /\ repo_seq' = IF get_repo(name) = {} THEN repo_seq + 1 ELSE repo_seq
    /\ UNCHANGED <<foreign_keys, packages, provides, requires, pkg_seq, now,
                   sync_vars, deleted, res_vars>>

AddRepo(name, base_url, repomd_url, rtype, source_repo_id) ==
    /\ add_repo(name, base_url, repomd_url, rtype, source_repo_id)
    /\ UNCHANGED ext_vars

\* delete_repo: DELETE FROM repositories WHERE id=?; the packages and their
\* relations go by the schema's ON DELETE CASCADE.
delete_repo(name) ==
    /\ sync_pc = "idle"
    /\ get_repo(name) # {}
    /\ LET id   == (CHOOSE r \in get_repo(name) : TRUE).id
           keys == PkgKeysOf(packages, id)
       IN  /\ repositories' = {r \in repositories : r.id # id}
           /\ packages' = CascadePackages(packages, id, foreign_keys)
           /\ provides' = CascadeRelations(provides, keys, foreign_keys)
           /\ requires' = CascadeRelations(requires, keys, foreign_keys)
           /\ deleted' = [ids |-> deleted.ids \cup {id}, keys |-> deleted.keys \cup keys]
    /\ UNCHANGED <<foreign_keys, repo_seq, pkg_seq, now, sync_vars, res_vars>>

DeleteRepo(name) ==
    /\ delete_repo(name)
    /\ UNCHANGED ext_vars

\* link_source: both repositories exist (else KeyError), the first is
\* binary and the second is source (else ValueError); then one UPDATE.
link_source_rows(binary_repo, source_repo) ==
    LET sid == (CHOOSE r \in get_repo(source_repo) : TRUE).id
    IN  {IF r.name = binary_repo THEN [r EXCEPT !.source_repo_id = sid] ELSE r :
            r \in repositories}

link_source(binary_repo, source_repo) ==
    /\ sync_pc = "idle"
    /\ get_repo(binary_repo) # {}
    /\ get_repo(source_repo) # {}
    /\ \A r \in get_repo(binary_repo) : r.type = "binary"
    /\ \A r \in get_repo(source_repo) : r.type = "source"
    /\ repositories' = link_source_rows(binary_repo, source_repo)
    /\ UNCHANGED <<foreign_keys, repo_seq, packages, provides, requires, pkg_seq, now,
                   sync_vars, deleted, res_vars>>

(***************************************************************************)
(* The specification of the store and the sync pipeline.                   *)
(***************************************************************************)
\* No repository command has run.
NoCmd == [op |-> "none", name |-> "", baseurl |-> "", repomd |-> "", type |-> "binary",
          source_repo |-> "", repeat |-> FALSE]

\* The connections that may run import_repodb on the store's file.
Importers == {"i1", "i2"}

NoImport == [pc |-> "idle", repo_id |-> NULL, src |-> "", src_rows |-> <<>>,
             mapping |-> {}, result |-> "none"]

NoSweep == [names |-> <<>>, all_ |-> FALSE]

\* "no proxy": an unset proxy_url, an unset environment variable, a
\* request that goes out directly.
NoProxy == ""

NoDownload == [mode |-> "none", stream |-> FALSE, n |-> 0]

ImpIdle ==
    /\ imports = [i \in Importers |-> NoImport]

SweepIdle ==
    /\ sweep_pc = "idle"
    /\ sweep_args = NoSweep
    /\ sweep_repos = <<>>
    /\ sweep_started = <<>>
    /\ sweep_ended = 0
    /\ sweep_log = <<>>

DlCallIdle ==
    /\ dl_pc = "idle"
    /\ dl_call = NoDownload
    /\ attempt = 0
    /\ dl_failures = <<>>
    /\ dl_renewals = 0
    /\ dl_result = "none"
    /\ dl_via = NoProxy

\* No Downloader was constructed.
DlIdle ==
    /\ config = [proxy_url |-> NoProxy]
    /\ environ = NoProxy
    /\ sessions = <<>>
    /\ path = [kind |-> "absent", chunks |-> 0]
    /\ DlCallIdle

NoPair   == <<>>
NoResult == [lt |-> FALSE, eq |-> FALSE, gt |-> FALSE, lt_ba |-> FALSE, gt_ba |-> FALSE,
             done |-> FALSE]

NvIdle ==
    /\ nv_pair = NoPair
    /\ nv_result = NoResult

NoRt  == [pc |-> "idle"]
NoVc  == [pc |-> "idle"]
NoCli == [pc |-> "idle"]

FnIdle ==
    /\ rt = NoRt
    /\ vc = NoVc
    /\ cli = NoCli

ExtIdle ==
    /\ last_cmd = NoCmd
    /\ ImpIdle
    /\ SweepIdle
    /\ DlIdle
    /\ NvIdle
    /\ FnIdle

NoRequest == [packages |-> <<>>, recursive |-> FALSE, weakdeps |-> FALSE, arch |-> None]

ResIdle ==
    /\ request = NoRequest
    /\ res_pc = "idle"
    /\ to_resolve = <<>>
    /\ stack = <<>>
    /\ resolved_keys = {}
    /\ dep_map = <<>>
    /\ unsatisfied = {}
    /\ visits = <<>>
    /\ iterations = 0

SyncIdle ==
    /\ sync_pc = "idle"
    /\ sync_repo_id = NULL
    /\ sync_fetched = NoFetch
    /\ sync_todo = <<>>
    /\ sync_result = "none"
    /\ pre = NoSnapshot

Init ==
    /\ foreign_keys \in {WindnfForeignKeys, LegacyForeignKeys}
    /\ repositories = {}
    /\ repo_seq = 0
    /\ packages = {}
    /\ provides = {}
    /\ requires = {}
    /\ pkg_seq = 0
    /\ now = 0
    /\ deleted = [ids |-> {}, keys |-> {}]
    /\ ExtIdle
    /\ SyncIdle
    /\ ResIdle

Next ==
    \/ \E name \in RepoNames : AddRepo(name, "http://a", DefaultRepomd, "binary", NULL)
    \/ \E name \in RepoNames : DeleteRepo(name)
    \/ \E r \in repositories, kind \in EarlyReturns \cup EarlyRaises : SyncFetchFails(r, kind)
    \/ \E r \in repositories, s \in RemoteSnapshots, d \in BOOLEAN : SyncFetched(r, s, d)
    \/ SyncClear
    \/ SyncAddPackages
    \/ SyncRelation
    \/ SyncStamp
    \/ SyncRaise
    \/ SyncReturn

Spec == Init /\ [][Next]_vars

(***************************************************************************)
(* The repository commands of the facade (operations.py: repoadd,          *)
(* repolink, repodel) in any order.                                        *)
(***************************************************************************)
\* "no --source-repo"
NoName == ""

RepoTypes == {"binary", "source"}

Cmd(op, name, baseurl, repomd, rtype, source_repo, repeat) ==
    [op |-> op, name |-> name, baseurl |-> baseurl, repomd |-> repomd, type |-> rtype,
     source_repo |-> source_repo, repeat |-> repeat]

\* repoadd(name, baseurl, repomd, repo_type, source_repo, sync=False): the
\* source repository is looked up by name (ValueError when it is unknown),
\* then add_repo.
Repoadd(name, baseurl, repomd, rtype, source_repo) ==
    /\ source_repo = NoName \/ get_repo(source_repo) # {}
    /\ add_repo(name, rstrip_slash(baseurl), repomd, rtype,
                IF source_repo = NoName THEN NULL
                ELSE (CHOOSE r \in get_repo(source_repo) : TRUE).id)
    /\ last_cmd' = Cmd("repoadd", name, baseurl, repomd, rtype, source_repo,
                       /\ last_cmd.op = "repoadd"
                       /\ last_cmd.name = name
                       /\ last_cmd.baseurl = baseurl
                       /\ last_cmd.repomd = repomd
                       /\ last_cmd.type = rtype
                       /\ last_cmd.source_repo = source_repo)
    /\ UNCHANGED cmd_rest

Repolink(binary_repo, source_repo) ==
    /\ link_source(binary_repo, source_repo)
    /\ last_cmd' = Cmd("repolink", binary_repo, "", "", "binary", source_repo, FALSE)
    /\ UNCHANGED cmd_rest

\* repodel(names, force=True), one name.
Repodel(name) ==
    /\ delete_repo(name)
    /\ last_cmd' = Cmd("repodel", name, "", "", "binary", NoName, FALSE)
    /\ UNCHANGED cmd_rest

RepoNext ==
    \/ \E name \in RepoNames, baseurl \in BaseUrls, repomd \in Repomds,
          rtype \in RepoTypes, source_repo \in RepoNames \cup {NoName} :
          Repoadd(name, baseurl, repomd, rtype, source_repo)
    \/ \E b \in RepoNames, s \in RepoNames : Repolink(b, s)
    \/ \E name \in RepoNames : Repodel(name)

RepoSpec == Init /\ [][RepoNext]_vars


(***************************************************************************)
(* NEVRA.parse and search_packages.                                        *)
(***************************************************************************)
\* [A-Za-z0-9._+\-] and [A-Za-z0-9_.+] over the model's characters.
NameChars == (DOMAIN Ord) \ {":", "^", "~"}
ArchChars == NameChars \ {"-"}

AllIn(s, i, j, set) == \A k \in i..j : s[k] \in set

\* The ways NEVRA_RE matches s: name = s[1..a]; with e > 0 the epoch group
\* "-epoch:" is s[a+1..e+1]; then "-", version up to b, "-", release up to c,
\* ".", arch to the end.
NEVRA_RE(s) ==
    LET L == Len(s)
    IN  {m \in [a : 1..L, e : 0..L, b : 1..L, c : 1..L] :
            LET vs == IF m.e = 0 THEN m.a + 2 ELSE m.e + 3
            IN  /\ AllIn(s, 1, m.a, NameChars)
                /\ m.e = 0 \/ ( /\ m.e >= m.a + 2
                                /\ m.e + 1 <= L
                                /\ s[m.a + 1] = "-"
                                /\ AllIn(s, m.a + 2, m.e, Digits)
                                /\ s[m.e + 1] = ":" )
                /\ vs - 1 <= L /\ s[vs - 1] = "-"
                /\ vs <= m.b /\ AllIn(s, vs, m.b, NameChars)
                /\ m.b + 2 <= m.c /\ s[m.b + 1] = "-"
                /\ AllIn(s, m.b + 2, m.c, NameChars)
                /\ m.c + 2 <= L /\ s[m.c + 1] = "."
                /\ AllIn(s, m.c + 2, L, ArchChars)}

\* The match the regex engine returns: every group greedy, leftmost first.
Greedier(m, n) ==
    \/ m.a > n.a
    \/ m.a = n.a /\ m.e > n.e
    \/ m.a = n.a /\ m.e = n.e /\ m.b > n.b
    \/ m.a = n.a /\ m.e = n.e /\ m.b = n.b /\ m.c >= n.c

ParseError == [error |-> "ValueError"]

NEVRA_parse(s) ==
    IF NEVRA_RE(s) = {} THEN ParseError
    ELSE LET m  == CHOOSE x \in NEVRA_RE(s) : \A y \in NEVRA_RE(s) : Greedier(x, y)
             vs == IF m.e = 0 THEN m.a + 2 ELSE m.e + 3
         IN  [name    |-> SubSeq(s, 1, m.a),
              epoch   |-> IF m.e = 0 THEN None ELSE SubSeq(s, m.a + 2, m.e),
              version |-> SubSeq(s, vs, m.b),
              release |-> SubSeq(s, m.b + 2, m.c),
              arch    |-> SubSeq(s, m.c + 2, Len(s))]

\* LOWER(name) LIKE LOWER('%pattern%'): "_" in the pattern matches any one
\* character.  (The summary column is NULL in the model's rows.)
Like(name, pattern) ==
    \E i \in 1..(Len(name) - Len(pattern) + 1) :
        \A j \in 1..Len(pattern) :
            pattern[j] = "_" \/ Lower(pattern[j]) = Lower(name[i + j - 1])

\* search_packages(pattern, repo_filter): the matching rows.
search_packages(pattern, repo_filter) ==
    LET nv == NEVRA_parse(pattern)
    IN  {p \in packages :
            /\ repo_filter = {} \/ p.repo_id \in repo_filter
            /\ IF nv # ParseError
               THEN /\ p.name = nv.name
                    /\ nv.epoch = None \/ p.epoch = nv.epoch
                    /\ p.version = nv.version
                    /\ p.release = nv.release
                    /\ p.arch = nv.arch
               ELSE Like(p.name, pattern)}

get_by_key(pkgKey) == {p \in packages : p.pkgKey = pkgKey}

Row(pkgKey) == CHOOSE p \in packages : p.pkgKey = pkgKey

\* A set of keys in the order a scan returns them (by rowid).
KeySeq(S) ==
    LET F[T \in SUBSET S] ==
            IF T = {} THEN <<>>
            ELSE LET k == CHOOSE x \in T : \A y \in T : x <= y
                 IN  <<k>> \o F[T \ {k}]
    IN  F[S]

\* max(rows, key=lambda r: NEVRA.from_row(r)): the first row no later row
\* is greater than.
MaxFrom(first, others) ==
    LET K == {p.pkgKey : p \in packages}
        gt[x \in K, y \in K] == NEVRA_gt(from_row(Row(x)), from_row(Row(y)))
        M[best \in K, rest \in Seq(K)] ==
            IF rest = <<>> THEN best
            ELSE IF gt[Head(rest), best]
                 THEN M[Head(rest), Tail(rest)]
                 ELSE M[best, Tail(rest)]
    IN  M[first, others]

best_row(rows) ==
    LET ks == KeySeq({p.pkgKey : p \in rows})
    IN  MaxFrom(Head(ks), Tail(ks))

\* provides_map(): capability name -> keys of the rows of table provides.
provides_map(name) == {x.pkgKey : x \in {y \in provides : y.name = name}}

\* requires_map(): pkgKey -> its rows of table requires, in rowid order
\* (the model's stores hold a package's rows in the order of their names).
RowSeq(S) ==
    LET F[T \in SUBSET S] ==
            IF T = {} THEN <<>>
            ELSE LET r == CHOOSE x \in T : \A y \in T : StrCmp(x.name, y.name) <= 0
                 IN  <<r>> \o F[T \ {r}]
    IN  F[S]

requires_map(pkgKey) == RowSeq({r \in requires : r.pkgKey = pkgKey})


(***************************************************************************)
(* The resolver (operations.py, Operations._resolve_dependencies).         *)
(***************************************************************************)
\* Lines 282-287: the seed of each pattern that matches, in request order.
RECURSIVE Seeds(_)
Seeds(patterns) ==
    IF patterns = <<>> THEN <<>>
    ELSE LET rows == search_packages(Head(patterns), {})
         IN  (IF rows = {} THEN <<>> ELSE <<best_row(rows)>>) \o Seeds(Tail(patterns))

\* A work loop without the resolved_keys test.
already_resolved_never(pkgKey) == FALSE

\* Lines 303-304: a popped package that is resolved already is skipped.
already_resolved(pkgKey) == pkgKey \in resolved_keys

\* Lines 312-318: the providers appended to dep_map[pkgKey] for one
\* requirement: every key of provides_map[name] that get_by_key finds.
ProvidersOf(r) == KeySeq({k \in provides_map(r.name) : get_by_key(k) # {}})

RECURSIVE DepsOf(_)
DepsOf(reqs) ==
    IF reqs = <<>> THEN <<>> ELSE ProvidersOf(Head(reqs)) \o DepsOf(Tail(reqs))

Deps(pkgKey) == DepsOf(requires_map(pkgKey))

\* A work loop that pushes the providers whatever "recursive" says.
Pushes_always(pkgKey) ==
    SelectSeq(Deps(pkgKey), LAMBDA k : k \notin resolved_keys \cup {pkgKey})

\* Lines 319-320: if recursive and pKey not in resolved_keys: stack.append.
Pushes(pkgKey) ==
    IF request.recursive
    THEN SelectSeq(Deps(pkgKey), LAMBDA k : k \notin resolved_keys \cup {pkgKey})
    ELSE <<>>

\* Lines 321-322: a requirement nothing provides.
Unsatisfied(pkgKey) ==
    LET reqs == requires_map(pkgKey)
    IN  {reqs[i].name : i \in {j \in 1..Len(reqs) : provides_map(reqs[j].name) = {}}}

Visits(k) == IF k \in DOMAIN visits THEN visits[k] ELSE 0

ResolveSeed ==
    /\ res_pc = "idle"
    /\ request # NoRequest
    /\ to_resolve' = Seeds(request.packages)
    /\ stack' = to_resolve'
    /\ res_pc' = IF to_resolve' = <<>> THEN "done" ELSE "loop"
    /\ UNCHANGED <<store_vars, now, sync_vars, deleted, ext_vars, request, resolved_keys,
                   dep_map, unsatisfied, visits, iterations>>

\* One iteration of "while stack" whose package is resolved already.
ResolveSkip ==
    /\ res_pc = "loop"
    /\ stack # <<>>
    /\ already_resolved(stack[Len(stack)])
    /\ stack' = SubSeq(stack, 1, Len(stack) - 1)
    /\ iterations' = iterations + 1
    /\ UNCHANGED <<store_vars, now, sync_vars, deleted, ext_vars, request, res_pc, to_resolve,
                   resolved_keys, dep_map, unsatisfied, visits>>

\* One iteration of "while stack" that expands the popped package.
ResolveExpand ==
    /\ res_pc = "loop"
    /\ stack # <<>>
    /\ ~already_resolved(stack[Len(stack)])
    /\ LET pkgKey == stack[Len(stack)]
       IN  /\ resolved_keys' = resolved_keys \cup {pkgKey}
           /\ dep_map' = (pkgKey :> Deps(pkgKey)) @@ dep_map
           /\ unsatisfied' = unsatisfied \cup Unsatisfied(pkgKey)
           /\ stack' = SubSeq(stack, 1, Len(stack) - 1) \o Pushes(pkgKey)
           /\ visits' = (pkgKey :> Visits(pkgKey) + 1) @@ visits
    /\ iterations' = iterations + 1
    /\ UNCHANGED <<store_vars, now, sync_vars, deleted, ext_vars, request, res_pc, to_resolve>>

\* Lines 324-331: the stack is empty, the result is returned.
ResolveReturn ==
    /\ res_pc = "loop"
    /\ stack = <<>>
    /\ res_pc' = "done"
    /\ UNCHANGED <<store_vars, now, sync_vars, deleted, ext_vars, request, to_resolve, stack,
                   resolved_keys, dep_map, unsatisfied, visits, iterations>>

(***************************************************************************)
(* The specification of the resolver: any store over the catalog below,    *)
(* any of the requests.                                                    *)
(***************************************************************************)
Req(name, flags, version) ==
    [name |-> name, flags |-> flags, epoch |-> IF flags = NoFlags THEN None ELSE v0,
     version |-> version, release |-> None, is_weak |-> FALSE]

\* A weak requirement (a Recommends entry: is_weak = 1).
WeakReq(name) == [Req(name, NoFlags, None) EXCEPT !.is_weak = TRUE]

\* A capability whose name is no package's name.
slibc == <<"l", "i", "b", "c">>

\* provides: the capabilities the metadata lists besides the package's name.
Pkg(name, version, arch, reqs) ==
    [name |-> name, epoch |-> v0, version |-> version, release |-> v1, arch |-> arch,
     requires |-> reqs, provides |-> {}]

\* A requires B >= 2.0 and lib; B-1.9 requires A (a cycle) and recommends C;
\* B-2.1 requires B (itself) and libc; two builds of lib; C provides libc.
Catalog ==
    << Pkg(sA, v1, x86_64, {Req(sB, "GE", v2_0), Req(slib, NoFlags, None)}),
       Pkg(sB, v1_9, x86_64, {Req(sA, NoFlags, None), WeakReq(sC)}),
       Pkg(sB, v2_1, x86_64, {Req(sB, NoFlags, None), Req(slibc, NoFlags, None)}),
       Pkg(slib, v1, noarch, {}),
       Pkg(slib, v1, x86_64, {}),
       [Pkg(sC, v1, aarch64, {}) EXCEPT !.provides = {slibc}] >>

Requests ==
    {[packages |-> pats, recursive |-> rec, weakdeps |-> weak, arch |-> arch] :
        pats \in {<<sA>>, <<sB>>, <<slib>>, <<sB, sA>>, <<sC, sA, sA>>},
        rec \in BOOLEAN,
        weak \in BOOLEAN,
        arch \in {None, x86_64, aarch64}}

CatalogPackages(S) ==
    {[pkgKey |-> k, repo_id |-> 1, name |-> Catalog[k].name, epoch |-> Catalog[k].epoch,
      version |-> Catalog[k].version, release |-> Catalog[k].release,
      arch |-> Catalog[k].arch] : k \in S}

CatalogRequires(S) ==
    UNION {{[pkgKey |-> k, name |-> r.name, flags |-> r.flags, epoch |-> r.epoch,
             version |-> r.version, release |-> r.release, is_weak |-> r.is_weak] :
                r \in Catalog[k].requires} : k \in S}

\* E: the packages whose metadata lists their own name among the provides.
CatalogProvides(E) ==
    {[pkgKey |-> k, name |-> Catalog[k].name] : k \in E}
    \cup UNION {{[pkgKey |-> k, name |-> c] : c \in Catalog[k].provides} : k \in E}

ResolveInit ==
    /\ foreign_keys = WindnfForeignKeys
    /\ repositories = {RepoRow(1, "r1", 1)}
    /\ repo_seq = 1
    /\ \E S \in SUBSET (DOMAIN Catalog) :
         /\ Cardinality(S) <= MaxStoreSize
         /\ packages = CatalogPackages(S)
         /\ requires = CatalogRequires(S)
         /\ \E E \in SUBSET S : provides = CatalogProvides(E)
    /\ pkg_seq = Len(Catalog)
    /\ now = 1
    /\ deleted = [ids |-> {}, keys |-> {}]
    /\ ExtIdle
    /\ SyncIdle
    /\ request \in Requests
    /\ res_pc = "idle"
    /\ to_resolve = <<>>
    /\ stack = <<>>
    /\ resolved_keys = {}
    /\ dep_map = <<>>
    /\ unsatisfied = {}
    /\ visits = <<>>
    /\ iterations = 0

ResolveNext ==
    \/ ResolveSeed
    \/ ResolveSkip
    \/ ResolveExpand
    \/ ResolveReturn

ResolveSpec == ResolveInit /\ [][ResolveNext]_vars

\* The call runs on one thread, nothing else is scheduled: a loop iteration
\* that can run does run.
ResolveLiveSpec == ResolveSpec /\ WF_vars(ResolveNext)


(***************************************************************************)
(* Properties of the sync pipeline and of the repository commands.         *)
(***************************************************************************)
Range(f) == {f[i] : i \in DOMAIN f}

Ident(p) == <<p.name, p.epoch, p.version, p.release, p.arch>>
IdentsOf(pkgs, repo_id) == {Ident(p) : p \in {q \in pkgs : q.repo_id = repo_id}}

SyncRunning == sync_pc \in {"fetched", "cleared", "relations"}
SyncFailed  == sync_pc = "done" /\ sync_result # "ok"
SyncOk      == sync_pc = "done" /\ sync_result = "ok"

LastUpdated(repos, id) == (CHOOSE r \in repos : r.id = id).last_updated

\* C1: after a sync_repo(r) that failed, in whichever way, the store equals
\* the store before the call: packages, provides, requires and every
\* repository row (last_updated included) are unchanged.
C1_FailedSyncLeavesStore == SyncFailed => StoreSnapshot = pre

\* C2: at every commit point of a running sync_repo(r) the package set of r
\* is its complete pre-sync set or its complete post-sync set, never empty
\* in between and never partly ingested.
C2_WipeAndIngestAtomic ==
    SyncRunning =>
        IdentsOf(packages, sync_repo_id) \in
            { IdentsOf(pre.packages, sync_repo_id),
              {Ident(e) : e \in Range(packages_data(sync_fetched.snapshot))} }

\* C3: when the digest of the primary artifact differs from the checksum
\* repomd.xml declares, the sync fails before any store mutation: the store
\* stays as it was and the call does not end as a success.
C3_ChecksumMismatchFatal ==
    (sync_pc # "idle" /\ ~sync_fetched.digest_ok) =>
        /\ StoreSnapshot = pre
        /\ sync_result # "ok"

\* C4: after delete_repo(R) no package row has repo_id = R and no provides
\* or requires row references a pkgKey that belonged to R.
C4_DeleteLeavesNoOrphans ==
    /\ \A p \in packages : p.repo_id \notin deleted.ids
    /\ \A x \in provides \cup requires : x.pkgKey \notin deleted.keys

ResolveDone == res_pc = "done"

RequiresOf(pkgKey) == {x \in requires : x.pkgKey = pkgKey}
PackageNames == {p.name : p \in packages}

\* The version-constraint check of a requirement: the triples
\* (epoch or 0, version, release) compared by rpmvercmp, an empty release
\* on the requirement's side comparing equal.
TripleCmp(p, r) ==
    IF EpochInt(p.epoch) # EpochInt(r.epoch)
    THEN Sign(EpochInt(p.epoch) - EpochInt(r.epoch))
    ELSE IF rpmvercmp(p.version, r.version) # 0 THEN rpmvercmp(p.version, r.version)
    ELSE IF r.release = None THEN 0
    ELSE rpmvercmp(p.release, r.release)

Satisfies(p, r) ==
    CASE r.flags = "EQ" -> TripleCmp(p, r) = 0
      [] r.flags = "LT" -> TripleCmp(p, r) < 0
      [] r.flags = "LE" -> TripleCmp(p, r) <= 0
      [] r.flags = "GT" -> TripleCmp(p, r) > 0
      [] r.flags = "GE" -> TripleCmp(p, r) >= 0
      [] OTHER -> TRUE

\* The providers of requirement r that pass its version constraint.
Passing(r) == {k \in provides_map(r.name) : get_by_key(k) # {} /\ Satisfies(Row(k), r)}

\* The architecture preference of a row under the user-supplied arch.
ArchPreference(p, arch) ==
    IF arch # None /\ p.arch = arch THEN 100
    ELSE IF p.arch = x86_64 THEN 50
    ELSE IF p.arch = noarch THEN 40
    ELSE 0

\* k scores highest among the candidates: architecture preference first,
\* the higher NEVRA next.
Preferred(k, candidates, arch) ==
    \A c \in candidates \ {k} :
        \/ ArchPreference(Row(k), arch) > ArchPreference(Row(c), arch)
        \/ /\ ArchPreference(Row(k), arch) = ArchPreference(Row(c), arch)
           /\ ~NEVRA_lt(from_row(Row(k)), from_row(Row(c)))

\* C5: provides_map maps the name of every package p to a set holding
\* p.pkgKey, with or without an explicit provides row, so a requirement
\* named after a package of the store never ends up unsatisfied.
C5_ImplicitSelfProvides ==
    ResolveDone =>
        /\ \A p \in packages : p.pkgKey \in provides_map(p.name)
        /\ unsatisfied \cap PackageNames = {}

\* C6: the providers the resolver accepts for a requirement with flags
\* EQ/LT/LE/GT/GE stand in that relation to the requirement's triple, and a
\* requirement no provider passes is reported unsatisfied.
C6_VersionConstraints ==
    ResolveDone =>
        \A k \in resolved_keys :
            /\ \A d \in Range(dep_map[k]) :
                  \E r \in RequiresOf(k) : d \in Passing(r)
            /\ \A r \in RequiresOf(k) :
                  Passing(r) = {} => r.name \in unsatisfied

\* C7: among the providers of one requirement, and among the matches of one
\* request pattern, the resolver chooses the candidate that scores highest
\* by architecture preference, then NEVRA.
C7_ArchPreference ==
    ResolveDone =>
        /\ \A i \in 1..Len(to_resolve) :
              \E j \in 1..Len(request.packages) :
                  /\ to_resolve[i] \in {p.pkgKey : p \in search_packages(request.packages[j], {})}
                  /\ Preferred(to_resolve[i],
                               {p.pkgKey : p \in search_packages(request.packages[j], {})},
                               request.arch)
        /\ \A k \in resolved_keys :
              \A d \in Range(dep_map[k]) :
                  \E r \in RequiresOf(k) :
                      /\ d \in provides_map(r.name)
                      /\ Preferred(d, provides_map(r.name), request.arch)

\* C8: every resolved pkgKey is the seed of a request pattern or a provider
\* of a capability another resolved package requires; with recursive=false
\* the resolved set is exactly the set of seeds.
C8_ResolverClosure ==
    /\ \A k \in resolved_keys :
          \/ k \in Range(to_resolve)
          \/ \E j \in resolved_keys \ {k} :
                \E r \in RequiresOf(j) : k \in provides_map(r.name)
    /\ (ResolveDone /\ ~request.recursive) => resolved_keys = Range(to_resolve)

\* A recursive call that resolved a package that is no seed.
C8_Witness ==
    /\ ResolveDone
    /\ request.recursive
    /\ resolved_keys \ Range(to_resolve) # {}

UniqueRepoNames == \A r1, r2 \in repositories : r1.name = r2.name => r1 = r2

\* C11: add_repo(A); add_repo(A) leaves the store that add_repo(A) left, the
\* repository keeps its id, and no sequence of add, link and delete makes
\* two repositories share a name.
C11_AddRepoIdempotent ==
    /\ []UniqueRepoNames
    /\ [][(last_cmd'.op = "repoadd" /\ last_cmd'.repeat) =>
            /\ StoreSnapshot' = StoreSnapshot
            /\ \A r \in get_repo(last_cmd'.name) :
                  \E q \in repositories' : q.name = r.name /\ q.id = r.id]_vars

\* The same repo-add twice in a row, of a repository that names a source
\* repository.
C11_Witness ==
    /\ last_cmd.op = "repoadd"
    /\ last_cmd.repeat
    /\ last_cmd.source_repo # NoName
    /\ get_repo(last_cmd.name) # {}

\* C12: after any sequence of repo-add, repo-link and repo-del every
\* source_repo_id that is set names a repository that exists and whose type
\* is source.
C12_SourceLinkValid ==
    \A r \in repositories :
        r.source_repo_id # NULL =>
            \E q \in repositories : q.id = r.source_repo_id /\ q.type = "source"


(***************************************************************************)
(* Snapshot imports (db_manager.py, DbManager.import_repodb): every        *)
(* importer is a connection to the same store file; each INSERT of the     *)
(* package loop commits on its own, so the calls of two importers          *)
(* interleave between any two rows.                                        *)
(***************************************************************************)
\* A row of a snapshot's packages table.
SrcPkg(pkgKey, name, arch) ==
    [pkgKey |-> pkgKey, name |-> name, epoch |-> v0, version |-> v1, release |-> v1,
     arch |-> arch]

\* The repodata sqlite files an import may be handed: two packages; one
\* package whose arch column is NULL; the same NEVRA under two keys.
ImportSnapshots ==
    [two    |-> [packages |-> <<SrcPkg(1, sA, x86_64), SrcPkg(2, sB, x86_64)>>,
                 provides |-> {[pkgKey |-> 1, name |-> sA], [pkgKey |-> 2, name |-> sB]},
                 requires |-> {[pkgKey |-> 1, name |-> sB]}],
     noarch |-> [packages |-> <<SrcPkg(1, sC, None)>>,
                 provides |-> {[pkgKey |-> 1, name |-> sC]},
                 requires |-> {}],
     twice  |-> [packages |-> <<SrcPkg(1, sA, x86_64), SrcPkg(2, sA, x86_64)>>,
                 provides |-> {[pkgKey |-> 1, name |-> sA]},
                 requires |-> {}]]

\* UNIQUE(repo_id, name, version, release, epoch, arch) of the packages
\* table: SQLite holds NULLs distinct, so a row with a NULL column never
\* conflicts.
unique_conflict(repo_id, s) ==
    /\ None \notin {s.name, s.epoch, s.version, s.release, s.arch}
    /\ \E p \in packages :
          /\ p.repo_id = repo_id
          /\ <<p.name, p.version, p.release, p.epoch, p.arch>> =
             <<s.name, s.version, s.release, s.epoch, s.arch>>

\* insert_package(repo_id, pkg): one INSERT under a fresh key.
insert_package(repo_id, s) ==
    packages \cup {[pkgKey |-> pkg_seq + 1, repo_id |-> repo_id, name |-> s.name,
                    epoch |-> s.epoch, version |-> s.version, release |-> s.release,
                    arch |-> s.arch]}

MappedKey(mapping, old) == (CHOOSE m \in mapping : m[1] = old)[2]

\* _copy_table: the rows whose key was mapped, under the new key.
copy_provides(src, mapping) ==
    {[pkgKey |-> MappedKey(mapping, r.pkgKey), name |-> r.name] :
        r \in {x \in ImportSnapshots[src].provides : \E m \in mapping : m[1] = x.pkgKey}}
copy_requires(src, mapping) ==
    {[pkgKey |-> MappedKey(mapping, r.pkgKey), name |-> r.name, flags |-> NoFlags,
      epoch |-> None, version |-> None, release |-> None, is_weak |-> FALSE] :
        r \in {x \in ImportSnapshots[src].requires : \E m \in mapping : m[1] = x.pkgKey}}

ImportUnchanged == UNCHANGED <<now, sync_vars, deleted, res_vars, imp_rest>>

\* import_repodb up to the package loop: KeyError on an unknown target,
\* else ATTACH and SELECT * FROM the snapshot's packages.
ImportBegin(i, src, target_repo_name) ==
    /\ imports[i].pc = "idle"
    /\ IF get_repo(target_repo_name) = {}
       THEN imports' = [imports EXCEPT ![i] = [NoImport EXCEPT !.result = "KeyError"]]
       ELSE imports' = [imports EXCEPT ![i] =
                [pc |-> "packages",
                 repo_id |-> (CHOOSE r \in get_repo(target_repo_name) : TRUE).id,
                 src |-> src, src_rows |-> ImportSnapshots[src].packages,
                 mapping |-> {}, result |-> "none"]]
    /\ UNCHANGED store_vars
    /\ ImportUnchanged

\* One turn of the package loop: insert_package and the mapping entry.
ImportPackage(i) ==
    /\ imports[i].pc = "packages"
    /\ imports[i].src_rows # <<>>
    /\ pkg_seq < MaxStoreSize
    /\ LET s == Head(imports[i].src_rows)
       IN  /\ ~unique_conflict(imports[i].repo_id, s)
           /\ packages' = insert_package(imports[i].repo_id, s)
           /\ pkg_seq' = pkg_seq + 1
           /\ imports' = [imports EXCEPT ![i].src_rows = Tail(@),
                             ![i].mapping = @ \cup {<<s.pkgKey, pkg_seq + 1>>}]
    /\ UNCHANGED <<foreign_keys, repositories, repo_seq, provides, requires>>
    /\ ImportUnchanged

\* The INSERT fails on the UNIQUE constraint: sqlite3.IntegrityError leaves
\* import_repodb through the finally block; the rows inserted before stay.
ImportConflict(i) ==
    /\ imports[i].pc = "packages"
    /\ imports[i].src_rows # <<>>
    /\ unique_conflict(imports[i].repo_id, Head(imports[i].src_rows))
    /\ imports' = [imports EXCEPT ![i] = [NoImport EXCEPT !.result = "IntegrityError"]]
    /\ UNCHANGED store_vars
    /\ ImportUnchanged

\* _copy_table("provides", ...): one executemany in one transaction.
ImportProvides(i) ==
    /\ imports[i].pc = "packages"
    /\ imports[i].src_rows = <<>>
    /\ provides' = provides \cup copy_provides(imports[i].src, imports[i].mapping)
    /\ imports' = [imports EXCEPT ![i].pc = "requires"]
    /\ UNCHANGED <<foreign_keys, repositories, repo_seq, packages, requires, pkg_seq>>
    /\ ImportUnchanged

\* _copy_table("requires", ...), DETACH and return repo_id.
ImportRequires(i) ==
    /\ imports[i].pc = "requires"
    /\ requires' = requires \cup copy_requires(imports[i].src, imports[i].mapping)
    /\ imports' = [imports EXCEPT ![i] = [NoImport EXCEPT !.result = "ok"]]
    /\ UNCHANGED <<foreign_keys, repositories, repo_seq, packages, provides, pkg_seq>>
    /\ ImportUnchanged

\* The store after "repoadd r1" and "repoadd r2" on windnf's DbManager.
ImportInit ==
    /\ foreign_keys = WindnfForeignKeys
    /\ repositories = {RepoRow(1, "r1", NULL), RepoRow(2, "r2", NULL)}
    /\ repo_seq = 2
    /\ packages = {}
    /\ provides = {}
    /\ requires = {}
    /\ pkg_seq = 0
    /\ now = 0
    /\ deleted = [ids |-> {}, keys |-> {}]
    /\ ExtIdle
    /\ SyncIdle
    /\ ResIdle

ImportNext ==
    \/ \E i \in Importers, src \in DOMAIN ImportSnapshots, t \in RepoNames \cup {"r3"} :
          ImportBegin(i, src, t)
    \/ \E i \in Importers : ImportPackage(i)
    \/ \E i \in Importers : ImportConflict(i)
    \/ \E i \in Importers : ImportProvides(i)
    \/ \E i \in Importers : ImportRequires(i)

ImportSpec == ImportInit /\ [][ImportNext]_vars

\* C13: no two package rows agree on (repo_id, name, epoch, version,
\* release, arch), whatever snapshots were imported and however often.
C13_PackageIdentityUnique ==
    \A p, q \in packages :
        (p.repo_id = q.repo_id /\ Ident(p) = Ident(q)) => p = q


\* C19: two imports of one target repository never run at the same time
\* (the second is turned away and changes nothing), so the package rows of
\* one import are never interleaved with those of another.
ImportRunning(i) == imports[i].pc # "idle"
ImportedKeys(i) == {m[2] : m \in imports[i].mapping}
C19_ImportsOfOneRepoExclusive ==
    \A i, j \in Importers :
        (i # j /\ imports[i].repo_id = imports[j].repo_id) =>
            /\ ~(ImportRunning(i) /\ ImportRunning(j))
            /\ ~ \E a, c \in ImportedKeys(i), b \in ImportedKeys(j) : a < b /\ b < c


(***************************************************************************)
(* The sweep of the facade (operations.py, Operations.reposync) over the   *)
(* metadata pipeline.                                                      *)
(***************************************************************************)
\* The repository names in ascending order, and a name's place in it.
NameOrder == <<"r1", "r2">>
NameRank(name) == CHOOSE i \in DOMAIN NameOrder : NameOrder[i] = name

\* A pipeline that lists the repositories in the order they were added.
list_repos_by_id ==
    LET ById[i \in 0..repo_seq] ==
            IF i = 0 THEN <<>>
            ELSE ById[i - 1] \o
                 (IF get_repo_by_id(i) = {} THEN <<>>
                  ELSE <<CHOOSE r \in get_repo_by_id(i) : TRUE>>)
    IN  ById[repo_seq]

\* list_repos: SELECT * FROM repositories ORDER BY name.
list_repos ==
    LET ByName[i \in 0..Len(NameOrder)] ==
            IF i = 0 THEN <<>>
            ELSE ByName[i - 1] \o
                 (IF get_repo(NameOrder[i]) = {} THEN <<>>
                  ELSE <<CHOOSE r \in get_repo(NameOrder[i]) : TRUE>>)
    IN  ByName[Len(NameOrder)]

\* [r for n in names if (r := self.db.get_repo(n)) is not None]
named_repos(names) ==
    LET Rows[i \in 0..Len(names)] ==
            IF i = 0 THEN <<>>
            ELSE Rows[i - 1] \o
                 (IF get_repo(names[i]) = {} THEN <<>>
                  ELSE <<CHOOSE r \in get_repo(names[i]) : TRUE>>)
    IN  Rows[Len(names)]

\* The ways sync_repo ends by raising: xml.etree's ParseError (a
\* SyntaxError) and sqlite3.Error (an Exception).  None of them is a
\* RuntimeError, the one class the loop of reposync catches.
SyncRaises    == EarlyRaises \cup {"store_error"}
RuntimeErrors == {}

\* The command lines: up to two names, known or not, or --all.
SweepNames == {<<>>} \cup {<<a>> : a \in RepoNames \cup {"r3"}}
                     \cup {<<a, b>> : a, b \in RepoNames \cup {"r3"}}

\* reposync(names, all_) up to the loop.
Reposync(names, all_) ==
    /\ sweep_pc = "idle"
    /\ sync_pc = "idle"
    /\ LET repos == IF all_ THEN list_repos ELSE named_repos(names)
       IN  /\ Len(repos) <= MaxClock - now
           /\ sweep_args' = [names |-> names, all_ |-> all_]
           /\ sweep_repos' = repos
           /\ sweep_pc' = IF repos = <<>> THEN "done" ELSE "loop"
    /\ sweep_started' = <<>>
    /\ sweep_ended' = 0
    /\ sweep_log' = <<>>
    /\ UNCHANGED <<store_vars, now, sync_vars, deleted, res_vars, sweep_rest>>

\* for r in repos: ... try: self.metadata.sync_repo(r)
SweepCall ==
    /\ sweep_pc = "loop"
    /\ sweep_repos # <<>>
    /\ sweep_pc' = "call"
    /\ sweep_started' = Append(sweep_started, Head(sweep_repos).name)
    /\ UNCHANGED <<store_vars, now, sync_vars, deleted, res_vars, sweep_rest,
                   sweep_args, sweep_repos, sweep_ended, sweep_log>>

\* The repository the running sync_repo call was handed.
SweepCurrent == get_repo_by_id(Head(sweep_repos).id)

\* sync_repo is over.  An exception that is no RuntimeError leaves
\* reposync; a RuntimeError is logged as a failure; a return, early or
\* not, is logged as a success.
SweepHandle ==
    /\ sweep_pc = "call"
    /\ sync_pc = "done"
    /\ sweep_ended' = sweep_ended + 1
    /\ IF sync_result \in SyncRaises \ RuntimeErrors
       THEN /\ sweep_pc' = "raised"
            /\ UNCHANGED <<sweep_repos, sweep_log>>
       ELSE /\ sweep_pc' = IF Tail(sweep_repos) = <<>> THEN "done" ELSE "loop"
            /\ sweep_repos' = Tail(sweep_repos)
            /\ sweep_log' = Append(sweep_log,
                    [name |-> Head(sweep_repos).name,
                     line |-> IF sync_result \in RuntimeErrors
                              THEN "Failed to sync" ELSE "Successfully synced"])
    /\ sync_pc' = "idle"
    /\ sync_repo_id' = NULL
    /\ sync_fetched' = NoFetch
    /\ sync_todo' = <<>>
    /\ sync_result' = "none"
    /\ pre' = NoSnapshot
    /\ UNCHANGED <<store_vars, now, deleted, res_vars, sweep_rest, sweep_args,
                   sweep_started>>

\* The command is over; the next one may run.
SweepReturn ==
    /\ sweep_pc \in {"done", "raised"}
    /\ sweep_pc' = "idle"
    /\ sweep_args' = NoSweep
    /\ sweep_repos' = <<>>
    /\ sweep_started' = <<>>
    /\ sweep_ended' = 0
    /\ sweep_log' = <<>>
    /\ UNCHANGED <<store_vars, now, sync_vars, deleted, res_vars, sweep_rest>>

\* The store after two repoadd commands, in either order of the names.
SweepInit ==
    /\ foreign_keys = WindnfForeignKeys
    /\ \E first \in RepoNames :
          repositories =
              {RepoRow(IF name = first THEN 1 ELSE 2, name, NULL) : name \in RepoNames}
    /\ repo_seq = 2
    /\ packages = {}
    /\ provides = {}
    /\ requires = {}
    /\ pkg_seq = 0
    /\ now = 0
    /\ deleted = [ids |-> {}, keys |-> {}]
    /\ ExtIdle
    /\ SyncIdle
    /\ ResIdle

SweepNext ==
    \/ \E names \in SweepNames, all_ \in BOOLEAN : Reposync(names, all_)
    \/ SweepCall
    \/ /\ sweep_pc = "call"
       /\ \E r \in SweepCurrent, kind \in EarlyReturns \cup EarlyRaises :
             SyncFetchFails(r, kind)
    \/ /\ sweep_pc = "call"
       /\ \E r \in SweepCurrent, s \in RemoteSnapshots, d \in BOOLEAN :
             SyncFetched(r, s, d)
    \/ SyncClear
    \/ SyncAddPackages
    \/ SyncRelation
    \/ SyncStamp
    \/ SyncRaise
    \/ SweepHandle
    \/ SweepReturn

SweepSpec == SweepInit /\ [][SweepNext]_vars

\* The repositories a command line selects, in the order it promises:
\* ascending by name under --all, else the known names as supplied.
Selected(args) ==
    IF args.all_
    THEN SelectSeq(NameOrder, LAMBDA n : get_repo(n) # {})
    ELSE SelectSeq(args.names, LAMBDA n : get_repo(n) # {})

SweepOver == sweep_pc \in {"done", "raised"}

\* C14: when the sweep is over, the sync of every selected repository was
\* attempted, whatever way the syncs before it failed.
C14_SweepContinuesAfterFailure ==
    SweepOver => sweep_started = Selected(sweep_args)

\* C15: the syncs of a sweep run one at a time and in the promised order:
\* the repositories whose sync has begun are a prefix of the selection, and
\* at most the last of these syncs is still running.
C15_SweepSerialInOrder ==
    /\ Len(sweep_started) <= Len(Selected(sweep_args))
    /\ sweep_started = SubSeq(Selected(sweep_args), 1, Len(sweep_started))
    /\ sweep_ended \in {Len(sweep_started) - 1, Len(sweep_started)}
    /\ sweep_ended \in 0..Len(sweep_started)
    /\ (sync_pc # "idle") =>
          /\ sweep_pc = "call"
          /\ sweep_ended = Len(sweep_started) - 1
          /\ \A r \in get_repo_by_id(sync_repo_id) :
                r.name = sweep_started[Len(sweep_started)]

\* Under --all the second of two syncs has begun, for the repository added
\* first, after the sync of the other one ended.
C15_Witness ==
    /\ sweep_args.all_
    /\ Len(sweep_started) = 2
    /\ sweep_ended = 1
    /\ sync_pc # "idle"
    /\ \A r \in get_repo_by_id(sync_repo_id) : r.id = 1


(***************************************************************************)
(* The fetcher (downloader.py, Downloader with the python backend).        *)
(***************************************************************************)
ProxyUrls   == {NoProxy, "http://proxy:3128"}
EnvProxies  == {NoProxy, "http://envproxy:8080"}

\* A session that keeps requests' default trust_env = True.
new_session_trusting ==
    [closed |-> FALSE, trust_env |-> TRUE,
     proxies |-> [http |-> config.proxy_url, https |-> config.proxy_url]]

\* _init_session, lines 85-96: requests.Session() with trust_env = False
\* and, when proxy_url is set, proxies for http and https.
new_session ==
    [closed |-> FALSE, trust_env |-> FALSE,
     proxies |-> [http |-> config.proxy_url, https |-> config.proxy_url]]

\* _init_session: close the session there is, then build the next one.
_init_session ==
    [i \in 1..Len(sessions) |-> [sessions[i] EXCEPT !.closed = TRUE]] \o <<new_session>>

\* requests' merge_environment_settings for an https request: with
\* trust_env the environment's proxy comes first, then the session's.
request_proxy(s) ==
    IF s.trust_env /\ environ # NoProxy THEN environ ELSE s.proxies.https

\* What self.session.get(...) and raise_for_status() end with, and the
\* exception a failed attempt raises.
GetOutcomes == {"ok", "407", "ProxyError", "ConnectionError", "SSLError",
                "ChunkedEncodingError", "HTTPError", "ReadTimeout", "TooLarge"}
BodyErrors  == {"ConnectionError", "ChunkedEncodingError", "SSLError"}
Raised(outcome) ==
    CASE outcome = "407"      -> "ProxyError"
      [] outcome = "TooLarge" -> "ValueError"
      [] OTHER                -> outcome

\* The except clauses with the auto-recovery block.
renews(mode, exc) ==
    IF mode = "file"
    THEN exc \in {"ProxyError", "ChunkedEncodingError", "ConnectionError", "SSLError"}
    ELSE exc \in {"ProxyError", "ConnectionError", "SSLError"}

max_logic_retries == 2

DlUnchanged == UNCHANGED <<store_vars, now, sync_vars, deleted, res_vars, dl_rest>>

\* download_to_file(url, output_path) / download_to_memory(url): the loop
\* is entered.
Download(mode, stream) ==
    /\ dl_pc = "idle"
    /\ dl_call.n < MaxCalls
    /\ mode = "memory" => stream
    /\ dl_pc' = "get"
    /\ dl_call' = [mode |-> mode, stream |-> stream, n |-> dl_call.n + 1]
    /\ attempt' = 1
    /\ dl_failures' = <<>>
    /\ dl_renewals' = 0
    /\ dl_result' = "none"
    /\ UNCHANGED <<config, environ, sessions, dl_via, path>>
    /\ DlUnchanged

\* An attempt raised exc: renewal and the next attempt, or the exception
\* leaves the call.
Fails(exc) ==
    /\ dl_failures' = Append(dl_failures, exc)
    /\ IF renews(dl_call.mode, exc) /\ attempt < max_logic_retries
       THEN /\ sessions' = _init_session
            /\ dl_renewals' = dl_renewals + 1
            /\ attempt' = attempt + 1
            /\ dl_pc' = "get"
            /\ UNCHANGED dl_result
       ELSE /\ dl_pc' = "done"
            /\ dl_result' = exc
            /\ UNCHANGED <<sessions, dl_renewals, attempt>>

\* self.session.get(url, stream=..., timeout=...) and what follows up to
\* the body: the status checks, the size ceiling of download_to_memory,
\* open(output_path, "wb"), the write of a body that was not streamed (a
\* request that is not streamed reads the body inside get, so only there
\* can get end with a ChunkedEncodingError).
DlGet(outcome) ==
    /\ dl_pc = "get"
    /\ outcome = "TooLarge" => dl_call.mode = "memory"
    /\ outcome = "ChunkedEncodingError" => ~dl_call.stream
    /\ dl_via' = request_proxy(sessions[Len(sessions)])
    /\ IF outcome = "ok"
       THEN /\ IF dl_call.mode = "file"
               THEN IF dl_call.stream
                    THEN /\ path' = [kind |-> "body", chunks |-> 0]
                         /\ dl_pc' = "body"
                         /\ UNCHANGED dl_result
                    ELSE /\ path' = [kind |-> "body", chunks |-> MaxChunks]
                         /\ dl_pc' = "done"
                         /\ dl_result' = "ok"
               ELSE /\ dl_pc' = "body"
                    /\ UNCHANGED <<path, dl_result>>
            /\ UNCHANGED <<sessions, dl_failures, dl_renewals, attempt>>
       ELSE /\ Fails(Raised(outcome))
            /\ UNCHANGED path
    /\ UNCHANGED <<config, environ, dl_call>>
    /\ DlUnchanged

\* One chunk of resp.iter_content is written to the open file.
DlChunk ==
    /\ dl_pc = "body"
    /\ dl_call.mode = "file"
    /\ path.chunks < MaxChunks
    /\ path' = [path EXCEPT !.chunks = @ + 1]
    /\ dl_pc' = IF path.chunks + 1 = MaxChunks THEN "done" ELSE "body"
    /\ dl_result' = IF path.chunks + 1 = MaxChunks THEN "ok" ELSE dl_result
    /\ UNCHANGED <<config, environ, sessions, dl_call, attempt, dl_failures,
                   dl_renewals, dl_via>>
    /\ DlUnchanged

\* return resp.content: the body is read into memory.
DlContent ==
    /\ dl_pc = "body"
    /\ dl_call.mode = "memory"
    /\ dl_pc' = "done"
    /\ dl_result' = "ok"
    /\ UNCHANGED <<config, environ, sessions, dl_call, attempt, dl_failures,
                   dl_renewals, dl_via, path>>
    /\ DlUnchanged

\* The connection breaks off while the body is read.
DlBodyFails(exc) ==
    /\ dl_pc = "body"
    /\ Fails(exc)
    /\ UNCHANGED <<config, environ, dl_call, dl_via, path>>
    /\ DlUnchanged

\* The call is over.
DlReturn ==
    /\ dl_pc = "done"
    /\ dl_pc' = "idle"
    /\ UNCHANGED <<config, environ, sessions, dl_call, attempt, dl_failures,
                   dl_renewals, dl_result, dl_via, path>>
    /\ DlUnchanged

\* Downloader(config) with the python backend, on a store nothing was
\* added to; output_path is absent or holds an earlier download.
DownloadInit ==
    /\ foreign_keys = WindnfForeignKeys
    /\ repositories = {}
    /\ repo_seq = 0
    /\ packages = {}
    /\ provides = {}
    /\ requires = {}
    /\ pkg_seq = 0
    /\ now = 0
    /\ deleted = [ids |-> {}, keys |-> {}]
    /\ last_cmd = NoCmd
    /\ ImpIdle
    /\ SweepIdle
    /\ NvIdle
    /\ FnIdle
    /\ SyncIdle
    /\ ResIdle
    /\ config \in [proxy_url : ProxyUrls]
    /\ environ \in EnvProxies
    /\ sessions = <<new_session>>
    /\ path \in {[kind |-> "absent", chunks |-> 0], [kind |-> "previous", chunks |-> 0]}
    /\ DlCallIdle

DownloadNext ==
    \/ \E mode \in {"file", "memory"}, stream \in BOOLEAN : Download(mode, stream)
    \/ \E outcome \in GetOutcomes : DlGet(outcome)
    \/ DlChunk
    \/ DlContent
    \/ \E exc \in BodyErrors : DlBodyFails(exc)
    \/ DlReturn

DownloadSpec == DownloadInit /\ [][DownloadNext]_vars


DlDone == dl_pc = "done"

\* The errors the session is renewed for: a 407 answer (raised as
\* ProxyError), proxy, connection and TLS errors, a connection that breaks
\* off during the body included.
RenewalErrors == {"ProxyError", "ConnectionError", "SSLError", "ChunkedEncodingError"}

\* C16: a call makes at most two attempts and at most one renewal; a first
\* attempt that fails with a renewal error is followed by one renewal and
\* one more attempt, whose failure is raised; an attempt that fails with
\* another error is raised without renewal.
C16_RenewOnceThenRaise ==
    /\ attempt <= 2
    /\ dl_renewals <= 1
    /\ DlDone =>
          /\ Len(dl_failures) <= 2
          /\ Len(dl_failures) = 2 => dl_result = dl_failures[2]
          /\ dl_failures # <<>> =>
                IF dl_failures[1] \in RenewalErrors
                THEN dl_renewals = 1 /\ attempt = 2
                ELSE dl_renewals = 0 /\ attempt = 1 /\ dl_result = dl_failures[1]

\* The proxies a session must have under the configuration.
ConfiguredProxy == config.proxy_url

\* C17: every session ever built ignores the environment's proxy and has
\* the configured proxy_url, or none, for http and https; every request
\* goes through exactly that; only the newest session is open.
C17_SessionsIgnoreEnvironment ==
    /\ \A i \in DOMAIN sessions :
          /\ ~sessions[i].trust_env
          /\ sessions[i].proxies.http = ConfiguredProxy
          /\ sessions[i].proxies.https = ConfiguredProxy
          /\ sessions[i].closed <=> i < Len(sessions)
    /\ dl_call.n > 0 /\ dl_pc # "get" => dl_via = ConfiguredProxy
    /\ dl_pc = "get" /\ attempt = 2 => dl_via = ConfiguredProxy

\* A renewed session served a request while the environment names a proxy
\* and the configuration names none.
C17_Witness ==
    /\ Len(sessions) >= 2
    /\ dl_renewals = 1
    /\ dl_pc \in {"body", "done"}
    /\ environ # NoProxy
    /\ config.proxy_url = NoProxy

\* C18: output_path never holds a part of a body: it is absent, holds what
\* it held before, or holds a whole body.
C18_NoPartialContent ==
    path.kind = "body" => path.chunks = MaxChunks


(***************************************************************************)
(* The comparison operators of NEVRA (nevra.py): __lt__, __eq__ and the    *)
(* __gt__ that functools.total_ordering derives, applied to pairs.         *)
(***************************************************************************)
v1_0  == <<"1", ".", "0">>
v1_00 == <<"1", ".", "0", "0">>

\* NEVRAs of two names, epochs None / 0 / 1, versions and releases with
\* strings rpmvercmp holds equal, two architectures.
NEVRAs ==
    [name : {sA, sB}, epoch : {None, v0, v1}, version : {v1_0, v1_00, v2_0},
     release : {v1, v1_0, v1_00}, arch : {x86_64, noarch}]

\* a < b, a == b, a > b, b < a and b > a are evaluated.
NvCompare ==
    /\ nv_pair # NoPair
    /\ ~nv_result.done
    /\ LET a == nv_pair[1]
           b == nv_pair[2]
       IN  nv_result' = [lt |-> NEVRA_lt(a, b), eq |-> NEVRA_eq(a, b),
                         gt |-> NEVRA_gt(a, b), lt_ba |-> NEVRA_lt(b, a),
                         gt_ba |-> NEVRA_gt(b, a), done |-> TRUE]
    /\ UNCHANGED <<nv_pair, store_vars, now, sync_vars, deleted, res_vars, nv_rest>>

\* Two NEVRAs were constructed.
NevraInit ==
    /\ foreign_keys = WindnfForeignKeys
    /\ repositories = {}
    /\ repo_seq = 0
    /\ packages = {}
    /\ provides = {}
    /\ requires = {}
    /\ pkg_seq = 0
    /\ now = 0
    /\ deleted = [ids |-> {}, keys |-> {}]
    /\ last_cmd = NoCmd
    /\ ImpIdle
    /\ SweepIdle
    /\ DlIdle
    /\ FnIdle
    /\ SyncIdle
    /\ ResIdle
    /\ nv_pair \in NEVRAs \X NEVRAs
    /\ nv_result = NoResult

NevraNext ==
    \/ NvCompare

NevraSpec == NevraInit /\ [][NevraNext]_vars

\* C20: the comparison operators form one total order: of a < b, a == b
\* and a > b exactly one holds, and a > b says the same as b < a.
C20_OrderTotal ==
    nv_result.done =>
        /\ \/ nv_result.lt /\ ~nv_result.eq /\ ~nv_result.gt
           \/ ~nv_result.lt /\ nv_result.eq /\ ~nv_result.gt
           \/ ~nv_result.lt /\ ~nv_result.eq /\ nv_result.gt
        /\ nv_result.gt <=> nv_result.lt_ba
        /\ nv_result.lt <=> nv_result.gt_ba


(***************************************************************************)
(* Base state of the specifications of pure functions and of the CLI:      *)
(* an empty store, nothing running.                                        *)
(***************************************************************************)
NothingRuns ==
    /\ foreign_keys = WindnfForeignKeys
    /\ repositories = {}
    /\ repo_seq = 0
    /\ packages = {}
    /\ provides = {}
    /\ requires = {}
    /\ pkg_seq = 0
    /\ now = 0
    /\ deleted = [ids |-> {}, keys |-> {}]
    /\ last_cmd = NoCmd
    /\ ImpIdle
    /\ SweepIdle
    /\ DlIdle
    /\ NvIdle
    /\ SyncIdle
    /\ ResIdle

FnUnchanged == UNCHANGED <<store_vars, now, sync_vars, deleted, res_vars, fn_rest>>

(***************************************************************************)
(* str(n) and NEVRA.parse (nevra.py).                                      *)
(***************************************************************************)
sA_B1 == <<"A", "-", "B", "1">>
sab_c == <<"a", ".", "b", "_", "c", "+">>
r1_b  == <<"1", ".", "b">>

\* Well-formed NEVRAs: names with digits, dots, underscores, plus signs
\* and internal dashes; epoch None or digits; version, release, arch.
WellFormed ==
    [name : {sA, sA_B1, sab_c, slib}, epoch : {None, v0, v1},
     version : {v1_0, v2_1}, release : {v1, r1_b}, arch : {x86_64, noarch}]

\* __str__: name-[epoch:]version-release.arch, the epoch when it is truthy.
NEVRA_str(n) ==
    n.name \o <<"-">> \o (IF n.epoch # None THEN n.epoch \o <<":">> ELSE <<>>)
           \o n.version \o <<"-">> \o n.release \o <<".">> \o n.arch

\* s = str(n)
RtStr ==
    /\ rt.pc = "made"
    /\ rt' = [rt EXCEPT !.pc = "rendered", !.s = NEVRA_str(rt.n)]
    /\ UNCHANGED <<vc, cli>>
    /\ FnUnchanged

\* NEVRA.parse(s)
RtParse ==
    /\ rt.pc = "rendered"
    /\ rt' = [rt EXCEPT !.pc = "parsed", !.parsed = NEVRA_parse(rt.s)]
    /\ UNCHANGED <<vc, cli>>
    /\ FnUnchanged

\* A well-formed NEVRA was constructed.
RoundTripInit ==
    /\ NothingRuns
    /\ \E n \in WellFormed : rt = [pc |-> "made", n |-> n, s |-> <<>>, parsed |-> ParseError]
    /\ vc = NoVc
    /\ cli = NoCli

RoundTripNext ==
    \/ RtStr
    \/ RtParse

RoundTripSpec == RoundTripInit /\ [][RoundTripNext]_vars

\* C21: NEVRA.parse(str(n)) is n: the same name, version, release and
\* arch, and the same epoch where None counts as 0.
C21_ParseRenderRoundTrip ==
    rt.pc = "parsed" =>
        /\ rt.parsed # ParseError
        /\ rt.parsed.name = rt.n.name
        /\ rt.parsed.version = rt.n.version
        /\ rt.parsed.release = rt.n.release
        /\ rt.parsed.arch = rt.n.arch
        /\ EpochInt(rt.parsed.epoch) = EpochInt(rt.n.epoch)


(***************************************************************************)
(* rpmvercmp applied to pairs of version strings.                          *)
(***************************************************************************)
\* Versions with tildes, with digit and letter runs after a common prefix,
\* and with different separators between the same runs.
VersionStrings ==
    {<<"1">>, <<"1", "~">>, <<"1", ".", "0">>, <<"1", ".", "0", "~", "r", "c", "1">>,
     <<"1", "_", "0">>, <<"1", "-", "0">>, <<"1", ".", "1">>, <<"1", ".", "a">>,
     <<"a">>, <<"1", "1">>, <<"1", "a">>, <<"a", "1">>, <<"a", "b">>,
     <<"2", ".", "0">>, <<"2", ".", "0", "~", "1">>}

\* rpmvercmp(a, b)
VcCompare ==
    /\ vc.pc = "given"
    /\ vc' = [vc EXCEPT !.pc = "done", !.result = rpmvercmp(vc.a, vc.b)]
    /\ UNCHANGED <<rt, cli>>
    /\ FnUnchanged

\* Two version strings are given.
VercmpInit ==
    /\ NothingRuns
    /\ \E a, b \in VersionStrings : vc = [pc |-> "given", a |-> a, b |-> b, result |-> 0]
    /\ rt = NoRt
    /\ cli = NoCli

VercmpNext ==
    \/ VcCompare

VercmpSpec == VercmpInit /\ [][VercmpNext]_vars

Letters == {"A", "B", "C", "a", "b", "c", "h", "i", "l", "n", "o", "r", "x"}
Separators == {".", "_", "-", "+"}

\* Length of the longest common prefix of a and b.
CommonPrefix(a, b) ==
    CHOOSE k \in 0..Min2(Len(a), Len(b)) :
        /\ \A i \in 1..k : a[i] = b[i]
        /\ k = Min2(Len(a), Len(b)) \/ a[k + 1] # b[k + 1]

\* C22: a tilde sorts before everything, the end of the string included:
\* v ~ s is below v for every suffix s.
C22_TildeSortsFirst ==
    (/\ vc.pc = "done"
     /\ Len(vc.a) > Len(vc.b)
     /\ SubSeq(vc.a, 1, Len(vc.b)) = vc.b
     /\ vc.a[Len(vc.b) + 1] = "~") => vc.result < 0

\* C23: where a continues with a run of digits and b with a run of letters
\* after their common prefix, a is the greater; and strings that differ
\* only in which separator stands between their runs compare equal.
C23_NumericAboveAlphabetic ==
    vc.pc = "done" =>
        LET k == CommonPrefix(vc.a, vc.b)
        IN  /\ (/\ k < Len(vc.a) /\ k < Len(vc.b)
                /\ \A i \in (k + 1)..Len(vc.a) : isdigit(vc.a[i])
                /\ \A i \in (k + 1)..Len(vc.b) : vc.b[i] \in Letters) => vc.result > 0
            /\ (/\ Len(vc.a) = Len(vc.b)
                /\ \A i \in 1..Len(vc.a) :
                      vc.a[i] = vc.b[i] \/ (vc.a[i] \in Separators /\ vc.b[i] \in Separators))
                  => vc.result = 0


(***************************************************************************)
(* The CLI process (cli.py: create_parser, main, handle_command).          *)
(***************************************************************************)
PackageArgs == {<<sA>>, <<sA, sB>>}

\* The namespaces parse_args returns.
Namespaces ==
    [command : {"repoadd"}, name : RepoNames, baseurl : BaseUrls, repomd : Repomds]
    \cup [command : {"repolist"}]
    \cup [command : {"reposync"}, repo : RepoNames \cup {"all"}]
    \cup [command : {"repodel"}, name : RepoNames]
    \cup [command : {"search"}, pattern : PackageArgs, repo : {None}, showduplicates : BOOLEAN]
    \cup [command : {"resolve"}, packages : PackageArgs, repo : {None},
          recurse : BOOLEAN, weakdeps : BOOLEAN]
    \cup [command : {"download"}, packages : PackageArgs, repo : {None},
          alldeps : BOOLEAN]

\* How a call ends.
Outcomes == {"return", "Exception", "KeyboardInterrupt"}

NoCalls == <<>>

\* A handle_command that passes the default repomd path to add_repo.
handler_call_default_repomd(args) ==
    CASE args.command = "repoadd" ->
            [op |-> "add_repo", args |-> <<"db_manager", args.name, args.baseurl, DefaultRepomd>>]
      [] args.command = "repolist" ->
            [op |-> "list_repos", args |-> <<"db_manager">>]
      [] args.command = "reposync" ->
            [op |-> "sync_repos", args |-> <<"metadata_manager", "db_manager", args.repo>>]
      [] args.command = "repodel" ->
            [op |-> "delete_repo", args |-> <<"db_manager", args.name>>]
      [] args.command = "search" ->
            [op |-> "search_packages",
             args |-> <<"db_manager", args.pattern, args.repo, args.showduplicates>>]
      [] args.command = "resolve" ->
            [op |-> "resolve_dependencies_multiple",
             args |-> <<"db_manager", args.packages, args.repo, args.recurse, args.weakdeps>>]
      [] args.command = "download" ->
            [op |-> "download_packages",
             args |-> <<"db_manager", "metadata_manager", "config", args.packages,
                        args.repo, args.alldeps>>]

\* The operation the if / elif chain of handle_command calls first, with
\* its arguments.
handler_call(args) ==
    CASE args.command = "repoadd" ->
            [op |-> "add_repo", args |-> <<"db_manager", args.name, args.baseurl, args.repomd>>]
      [] args.command = "repolist" ->
            [op |-> "list_repos", args |-> <<"db_manager">>]
      [] args.command = "reposync" ->
            [op |-> "sync_repos", args |-> <<"metadata_manager", "db_manager", args.repo>>]
      [] args.command = "repodel" ->
            [op |-> "delete_repo", args |-> <<"db_manager", args.name>>]
      [] args.command = "search" ->
            [op |-> "search_packages",
             args |-> <<"db_manager", args.pattern, args.repo, args.showduplicates>>]
      [] args.command = "resolve" ->
            [op |-> "resolve_dependencies_multiple",
             args |-> <<"db_manager", args.packages, args.repo, args.recurse, args.weakdeps>>]
      [] args.command = "download" ->
            [op |-> "download_packages",
             args |-> <<"db_manager", "metadata_manager", "config", args.packages,
                        args.repo, args.alldeps>>]

\* The exit code main leaves the process with: sys.exit(130) on
\* KeyboardInterrupt; an Exception is logged and main returns; a return
\* of main is exit code 0.
exit_code(outcome) ==
    CASE outcome = "KeyboardInterrupt" -> 130
      [] outcome = "Exception"         -> 0
      [] outcome = "return"            -> 0

\* parser.parse_args(): a namespace, or SystemExit(2) on a command line
\* the parser rejects (no handler of main catches SystemExit).
CliParse(valid, args) ==
    /\ cli.pc = "start"
    /\ cli' = IF valid
              THEN [cli EXCEPT !.pc = "handle", !.args = args]
              ELSE [cli EXCEPT !.pc = "exited", !.outcome = "invalid", !.exit = 2]
    /\ UNCHANGED <<rt, vc>>
    /\ FnUnchanged

\* handle_command: the first operation is called.  When "resolve" returns
\* results, the roots that have dependencies are printed next.
CliCall(outcome, roots) ==
    /\ cli.pc = "handle"
    /\ roots # {} => cli.args.command = "resolve" /\ outcome = "return"
    /\ roots \subseteq (IF cli.args.command = "resolve" THEN Range(cli.args.packages) ELSE {})
    /\ cli' = IF roots # {}
              THEN [cli EXCEPT !.pc = "results", !.roots = roots,
                               !.calls = Append(@, handler_call(cli.args))]
              ELSE [cli EXCEPT !.pc = "exited", !.outcome = outcome,
                               !.exit = exit_code(outcome),
                               !.calls = Append(@, handler_call(cli.args))]
    /\ UNCHANGED <<rt, vc>>
    /\ FnUnchanged

\* for root_pkg, deps in results.items(): search_packages(db_manager,
\* list(deps), ...) and print_packages.
CliResolveRoot(root, outcome) ==
    /\ cli.pc = "results"
    /\ root \in cli.roots
    /\ LET call == [op |-> "search_packages",
                    args |-> <<"db_manager", <<"deps", root>>, cli.args.repo, FALSE, TRUE>>]
           rest == cli.roots \ {root}
       IN  cli' = IF outcome = "return" /\ rest # {}
                  THEN [cli EXCEPT !.roots = rest, !.calls = Append(@, call)]
                  ELSE [cli EXCEPT !.pc = "exited", !.roots = rest,
                                   !.outcome = outcome, !.exit = exit_code(outcome),
                                   !.calls = Append(@, call)]
    /\ UNCHANGED <<rt, vc>>
    /\ FnUnchanged

\* The process is started.
CliInit ==
    /\ NothingRuns
    /\ rt = NoRt
    /\ vc = NoVc
    /\ cli = [pc |-> "start", args |-> [command |-> "none"], calls |-> NoCalls,
              roots |-> {}, outcome |-> "none", exit |-> 0]

CliNext ==
    \/ \E valid \in BOOLEAN, args \in Namespaces : CliParse(valid, args)
    \/ \E outcome \in Outcomes, roots \in SUBSET {sA, sB} : CliCall(outcome, roots)
    \/ \E root \in {sA, sB}, outcome \in Outcomes : CliResolveRoot(root, outcome)

CliSpec == CliInit /\ [][CliNext]_vars

CliExited == cli.pc = "exited"

\* C24: the exit code is 0 exactly when the command succeeded, 1 when an
\* operation raised, 2 on invalid arguments, 130 on Ctrl-C.
C24_ExitCodes ==
    CliExited =>
        cli.exit = (CASE cli.outcome = "return"            -> 0
                      [] cli.outcome = "Exception"         -> 1
                      [] cli.outcome = "invalid"           -> 2
                      [] cli.outcome = "KeyboardInterrupt" -> 130)

\* C25 as stated: a command that ran to its end made exactly one call, the
\* one of its command with the user's arguments.
C25_ExactlyOneOperation ==
    (CliExited /\ cli.outcome = "return") =>
        cli.calls = <<handler_call(cli.args)>>


\* C25 (amended): the first call of every command is the operation of that
\* command with the user's arguments; "repoadd" calls add_repo once with
\* (db_manager, name, baseurl, repomd) and nothing else; every command but
\* "resolve" makes that one call only, and "resolve" follows it with
\* search_packages calls only, one for each root it prints.
C25_Dispatch ==
    (CliExited /\ cli.outcome # "invalid") =>
        /\ Len(cli.calls) >= 1
        /\ cli.calls[1] = handler_call(cli.args)
        /\ cli.args.command = "repoadd" =>
              cli.calls = <<[op |-> "add_repo",
                             args |-> <<"db_manager", cli.args.name,
                                        cli.args.baseurl, cli.args.repomd>>]>>
        /\ cli.args.command # "resolve" => Len(cli.calls) = 1
        /\ \A i \in 2..Len(cli.calls) : cli.calls[i].op = "search_packages"

\* "repoadd" with a repomd path of the user's ran to its end.
C25_Witness ==
    /\ CliExited
    /\ cli.outcome = "return"
    /\ cli.args.command = "repoadd"
    /\ cli.args.repomd # DefaultRepomd
    /\ Len(cli.calls) = 1


(***************************************************************************)
(* Properties of the resolver's choice of providers, of weak requirements  *)
(* and of the report of the resolve command.                               *)
(***************************************************************************)
\* The keys an expansion appended to the stack (the popped key left it).
Pushed == {stack'[i] : i \in Len(stack)..Len(stack')}

\* C26: for each requirement of an expanded package that has a provider the
\* resolver enqueues exactly one provider, the best-scored one, and no
\* second provider of the capability.
C26_OneProviderPerRequirement ==
    [][(ResolveExpand /\ request.recursive) =>
          \A r \in RequiresOf(stack[Len(stack)]) :
              LET new == Pushed \cap (provides_map(r.name) \ (resolved_keys \cup {stack[Len(stack)]}))
              IN  /\ Cardinality(new) <= 1
                  /\ \A d \in new : Preferred(d, provides_map(r.name), request.arch)]_vars

StrongRequiresOf(pkgKey) == {r \in RequiresOf(pkgKey) : ~r.is_weak}

\* C27: without include_weak every provider recorded or resolved is there
\* for a strong requirement (or is a seed), and every unsatisfied name is
\* the name of a strong requirement of a resolved package.
C27_WeakOnlyWhenAsked ==
    (ResolveDone /\ ~request.weakdeps) =>
        /\ \A k \in resolved_keys :
              \/ k \in Range(to_resolve)
              \/ \E j \in resolved_keys :
                    \E r \in StrongRequiresOf(j) : k \in provides_map(r.name)
        /\ \A k \in DOMAIN dep_map :
              \A d \in Range(dep_map[k]) :
                  \E r \in StrongRequiresOf(k) : d \in provides_map(r.name)
        /\ \A u \in unsatisfied :
              \E k \in resolved_keys :
                  \E r \in StrongRequiresOf(k) : r.name = u

\* Operations.resolve, lines 343-382: the names the command reports as
\* unsatisfied, printed_unsatisfied: for each resolved row the names of its
\* requirements minus the package names of the rows of dep_map[pkgKey].
printed_unsatisfied ==
    UNION {{r.name : r \in RequiresOf(k)} \ {Row(d).name : d \in Range(dep_map[k])} :
              k \in {x \in resolved_keys : get_by_key(x) # {}}}

\* C28: the names reported as unsatisfied are the resolver's unsatisfied
\* set, and no reported name is a capability some package provides.
C28_ReportedIsUnsatisfied ==
    ResolveDone =>
        /\ printed_unsatisfied = unsatisfied
        /\ \A u \in printed_unsatisfied : provides_map(u) = {}


(***************************************************************************)
(* What a sync and a repeated repoadd leave alone.                         *)
(***************************************************************************)
\* The rows of a store that do not belong to repository id: the packages of
\* the other repositories with their relations, and every repository row
\* but for the last_updated of id.
Outside(snapshot, id) ==
    LET others == {p \in snapshot.packages : p.repo_id # id}
        keys   == {p.pkgKey : p \in others}
    IN  [packages     |-> others,
         provides     |-> {x \in snapshot.provides : x.pkgKey \in keys},
         requires     |-> {x \in snapshot.requires : x.pkgKey \in keys},
         repositories |-> {IF r.id = id THEN [r EXCEPT !.last_updated = NULL] ELSE r :
                              r \in snapshot.repositories}]

\* C29: while a sync of repository r runs and when it is over, with or
\* without success, the packages, relations and last_updated of the other
\* repositories and the name, base_url, repomd_url, type and source link of
\* every repository are what they were when the sync began.
C29_SyncTouchesOnlyItsRepo ==
    sync_pc # "idle" => Outside(StoreSnapshot, sync_repo_id) = Outside(pre, sync_repo_id)

\* A sync that succeeded and one that failed after clearing, each of a
\* repository whose store changed while another repository holds packages.
C29_Witness ==
    /\ sync_pc = "done"
    /\ sync_result = "ok"
    /\ StoreSnapshot # pre
    /\ \E p \in packages : p.repo_id # sync_repo_id
    /\ \E p \in packages : p.repo_id = sync_repo_id

\* The store after "repoadd r1 http://a/" and a sync of r1 that brought one
\* package with a provides and a requires row.
ReaddInit ==
    /\ foreign_keys \in {WindnfForeignKeys, LegacyForeignKeys}
    /\ repositories = {RepoRow(1, "r1", 1)}
    /\ repo_seq = 1
    /\ packages = {[pkgKey |-> 1, repo_id |-> 1, name |-> sA, epoch |-> v0,
                    version |-> v1, release |-> v1, arch |-> x86_64]}
    /\ provides = {[pkgKey |-> 1, name |-> sA]}
    /\ requires = {[pkgKey |-> 1, name |-> sB, flags |-> NoFlags, epoch |-> None,
                    version |-> None, release |-> None, is_weak |-> FALSE]}
    /\ pkg_seq = 1
    /\ now = 1
    /\ deleted = [ids |-> {}, keys |-> {}]
    /\ ExtIdle
    /\ SyncIdle
    /\ ResIdle

ReaddSpec == ReaddInit /\ [][RepoNext]_vars

\* C30: add_repo on a name that exists overwrites that row's base_url,
\* repomd_url, type and source_repo_id with the values given (NULL for no
\* source repository) and changes nothing else: the row keeps its id and
\* last_updated, the packages and relations stay, and so does every other
\* repository.
C30_ReaddOverwritesOnly ==
    [][(last_cmd'.op = "repoadd" /\ get_repo(last_cmd'.name) # {}) =>
          LET c   == last_cmd'
              old == CHOOSE r \in get_repo(c.name) : TRUE
              src == IF c.source_repo = NoName THEN NULL
                     ELSE (CHOOSE r \in get_repo(c.source_repo) : TRUE).id
          IN  /\ packages' = packages
              /\ provides' = provides
              /\ requires' = requires
              /\ {r \in repositories' : r.name # c.name} = {r \in repositories : r.name # c.name}
              /\ {r \in repositories' : r.name = c.name} =
                    {[id |-> old.id, name |-> c.name, base_url |-> rstrip_slash(c.baseurl),
                      repomd_url |-> c.repomd, type |-> c.type, source_repo_id |-> src,
                      last_updated |-> old.last_updated]}]_vars

\* r1, synced and linked to a source repository, was added again with
\* another base_url and without a source repository.
C30_Witness ==
    /\ last_cmd.op = "repoadd"
    /\ last_cmd.name = "r1"
    /\ last_cmd.source_repo = NoName
    /\ \E r \in get_repo("r1") :
          /\ r.id = 1
          /\ r.last_updated = 1
          /\ r.base_url = "http://b"
          /\ r.source_repo_id = NULL
    /\ \E r \in get_repo("r2") : r.type = "source"
    /\ packages # {}

=============================================================================
